---- MODULE Spec2Model ----
(***************************************************************************)
(* A model of postgres_backup_plugin: the backup engine                    *)
(* (core/backup_engine.py), its query builder and its SQL-text cleaner.    *)
(*                                                                         *)
(* Text is modelled at the level the cleaner's regular expressions look    *)
(* at: a document is a sequence of lines (content.split('\n')), a line is  *)
(* a sequence of tokens.  Tokens of a line are separated by white space,   *)
(* except that a qualifier token ("public.") is written directly in front  *)
(* of the token that follows it: <<"COPY", "public.", "t">> is the line    *)
(* COPY public.t and <<"public.", "public.", "t">> is public.public.t.     *)
(***************************************************************************)
EXTENDS Integers, Sequences, FiniteSets, TLC

(***************************************************************************)
(* Bounds of the model.                                                    *)
(***************************************************************************)
MaxLines == 3
MaxSubFilters == 2
MaxWrites == 2

(***************************************************************************)
(* The state: the variables of the cleaner, of _validate_filters and of    *)
(* backup() / estimate_size().                                             *)
(***************************************************************************)
VARIABLES
    content,                \* the argument: the text, as its lines
    remove_schema_prefix,   \* the argument
    cpc,                    \* "call", "loop", "returned"
    lines,                  \* content.split('\n')
    lineNo,                 \* the line the loop reads next
    in_copy_block,
    cleaned_lines,
    origin,                 \* for each line of cleaned_lines, the number of the line it was read as
    returned,               \* the text returned
    pass,                   \* 1: the first call, 2: the call on its result
    first_input,            \* the first call's argument
    first_returned          \* the first call's result

cvars == <<content, remove_schema_prefix, cpc, lines, lineNo, in_copy_block,
           cleaned_lines, origin, returned, pass, first_input, first_returned>>

VARIABLES
    vfilters,      \* the argument: table -> kind of filter
    vpc,           \* "call", "loop", "returned", "raised"
    vconn,         \* connections opened by the call and not closed
    vaborted,      \* the connection's transaction is aborted
    vpos,          \* position in FilterTables(vfilters) of the next filter
    validation_results,   \* table -> errors, for the filters examined
    verror         \* the error raised: its kind and what it names

vvars == <<vfilters, vpc, vconn, vaborted, vpos, validation_results, verror>>

VARIABLES
    filters,           \* argument: table -> kind of filter
    metadata,          \* argument: whether a mapping was passed, and its items
    writers,           \* other sessions insert and delete rows while the run reads
    schema_name,       \* argument: the target schema, or NoSchema
    source_schema,     \* argument
    excluded_tables,   \* backup_config.excluded_tables
    clean_output,      \* backup_config.clean_output
    copy_delimiter,    \* backup_config.copy_delimiter
    copy_null_string,  \* backup_config.copy_null_string
    pc,                \* the step backup() is at
    exc,               \* the exception being propagated to the handler
    temp_file,         \* the local variable: None or the path of the temp file
    fs,                \* the file system: the directory, the temp file, the destination
    fs0,               \* the file system when backup() was called
    conns,             \* connections opened and not closed
    aborted,           \* the transaction of the run's connection is aborted
    tables,            \* the result of the catalog query
    tpos,              \* the position in tables of the table the loop is at
    stats,             \* the local variable of _write_backup
    result,            \* the BackupResult
    issued,            \* the statements sent and subprocesses started so far
    faults,            \* the failures of the environment in the run (a statement that
                       \* fails only because the transaction is aborted is not one)
    sent,              \* the statements sent to the server, each with the step
                       \* that sent it and the table it was sent for
    epc,               \* the step estimate_size() is at
    epos,              \* the position of its loop
    estimates          \* its local variable

\* The fields of backup_config that no step assigns.
config == <<copy_delimiter, copy_null_string>>

bvars == <<config, metadata, writers, filters, schema_name, source_schema, excluded_tables, clean_output, pc,
           exc, temp_file, fs, fs0, conns, aborted, tables, tpos, stats, result,
           issued, faults, sent, epc, epos, estimates>>

VARIABLES
    sub_filters,   \* self.filters of the CompositeFilter
    operator,      \* self.operator
    table_name,    \* the argument of build
    params,        \* the keyword arguments of build
    fpc,           \* "call", "loop", "returned"
    fpos,          \* the position in self.filters of the loop
    conditions,    \* the local variable
    statement      \* the text build returned

fvars == <<sub_filters, operator, table_name, params, fpc, fpos, conditions, statement>>

VARIABLES
    bytes_written,   \* self.bytes_written of the CopyToStreamWrapper
    chunks_written,  \* self.chunks_written
    sink,            \* the calls self.outfile.write received, in order
    calls,           \* the calls of write() so far and how each ended
    stats_read       \* what the last read of the stats property returned

wvars == <<bytes_written, chunks_written, sink, calls, stats_read>>

vars == <<cvars, vvars, bvars, fvars, wvars>>

(***************************************************************************)
(* Tokens.                                                                 *)
(***************************************************************************)
\* A leading run of white space (matters to the patterns anchored with ^).
INDENT == "  "

\* The schema qualifier the cleaner strips, and the same text in capitals
\* (the keyword-anchored substitutions are compiled with re.IGNORECASE, the
\* catch-all one is not).
PUB == "public."
PUBUP == "PUBLIC."

\* An identifier written in double quotes, as pg_dump writes every name that
\* is not all lower-case letters, digits and underscores.
QuotedIdents == {"\"Order\""}

\* Tokens that do not begin with a letter or an underscore: the identifier
\* group ([a-zA-Z_][a-zA-Z0-9_]*) of a substitution cannot start in them.
NonIdentTokens ==
    QuotedIdents \cup
    {INDENT, "--", "\\.", "\\connect", "\\restrict", "\\unrestrict", "\\N", "\\t",
     "\\b", "\\b)", "1", "=", ";", ",", "(", ")", "====", "'UTF8';",
     "(id integer, val text);", "(FORMAT CSV,"}

\* [a-zA-Z_][a-zA-Z0-9_]* matches a prefix of the token.
IsIdentStart(tok) == tok \notin NonIdentTokens

\* The token is an identifier and nothing else, so that \s+ or a literal can
\* follow the identifier group directly.
\* An identifier directly followed by a closing quote, as in setval('public.seq'.
QuotedEnd == {"seq'"}

\* Tokens written directly in front of the token that follows them.
GlueTokens == {PUB, PUBUP, "pg_catalog.setval('"}

IsWholeIdent(tok) ==
    /\ IsIdentStart(tok)
    /\ tok \notin GlueTokens \cup {"pg_catalog.set_config("} \cup QuotedEnd

\* re.IGNORECASE: the spelling a keyword pattern compares.
Upper(tok) ==
    CASE tok = "copy" -> "COPY"
      [] tok = "set" -> "SET"
      [] tok = "only" -> "ONLY"
      [] tok = "create" -> "CREATE"
      [] tok = "table" -> "TABLE"
      [] OTHER -> tok

IsKw(tok, w) == Upper(tok) = w

\* The line without its leading white space.
Body(line) == IF Len(line) > 0 /\ line[1] = INDENT THEN Tail(line) ELSE line
Indented(line) == Len(line) > 0 /\ line[1] = INDENT

\* line.strip() is empty
StripsToEmpty(line) == Body(line) = <<>>

(***************************************************************************)
(* _clean_sql_content: the patterns.                                       *)
(***************************************************************************)
\* SET parameters whose statement is dropped (^SET\s+<name>), search_path
\* apart.
SkipSettings ==
    {"default_table_access_method", "default_tablespace", "default_with_oids",
     "row_security", "check_function_bodies", "xmloption", "client_min_messages",
     "standard_conforming_strings", "transaction_timeout",
     "idle_in_transaction_session_timeout", "client_encoding"}

\* ^\s*\\[a-zA-Z]+.*$ : a backslash followed by a letter.
MetaTokens == {"\\connect", "\\restrict", "\\unrestrict", "\\N"}

\* skip_patterns, each tried with pattern.match(line) (anchored at the start).
MatchesSkipPattern_KeepsSearchPath(line) ==
    LET b == Body(line) IN
    \/ Len(b) > 0 /\ b[1] = "--"
    \/ b = <<>>
    \/ Len(line) >= 2 /\ IsKw(line[1], "SELECT") /\ line[2] = "pg_catalog.set_config("
    \/ Len(b) > 0 /\ b[1] \in MetaTokens
    \/ Len(line) >= 2 /\ IsKw(line[1], "SET") /\ line[2] \in SkipSettings
    \/ Len(b) >= 4 /\ IsKw(b[1], "CREATE") /\ IsKw(b[2], "SCHEMA")
          /\ b[3] = "public" /\ b[4] = ";"
    \/ Len(b) >= 4 /\ IsKw(b[1], "COMMENT") /\ IsKw(b[2], "ON")
          /\ IsKw(b[3], "SCHEMA") /\ b[4] \in {"public", PUB, PUBUP}
MatchesSkipPattern(line) ==
    LET b == Body(line) IN
    \/ Len(b) > 0 /\ b[1] = "--"                                \* ^\s*--.*$
    \/ b = <<>>                                                  \* ^\s*$
    \/ Len(line) >= 2 /\ IsKw(line[1], "SET") /\ line[2] = "search_path"
    \/ Len(line) >= 2 /\ IsKw(line[1], "SELECT") /\ line[2] = "pg_catalog.set_config("
    \/ Len(b) > 0 /\ b[1] \in MetaTokens                        \* ^\s*\\[a-zA-Z]+.*$
    \/ Len(line) >= 2 /\ IsKw(line[1], "SET") /\ line[2] \in SkipSettings
    \/ Len(b) >= 4 /\ IsKw(b[1], "CREATE") /\ IsKw(b[2], "SCHEMA")
          /\ b[3] = "public" /\ b[4] = ";"
    \/ Len(b) >= 4 /\ IsKw(b[1], "COMMENT") /\ IsKw(b[2], "ON")
          /\ IsKw(b[3], "SCHEMA") /\ b[4] \in {"public", PUB, PUBUP}

\* copy_start_pattern = ^COPY\s+ (re.IGNORECASE): COPY at column 0 followed by
\* white space, that is by a further token.
CopyStart(line) == Len(line) >= 2 /\ IsKw(line[1], "COPY")

\* copy_end_pattern = ^\\\.(\s*)$ : a lone backslash-dot at column 0.
CopyEnd(line) == line = <<"\\.">>

(***************************************************************************)
(* _clean_sql_content: the substitutions.  A pattern is a sequence of      *)
(* elements, matched token by token from a position of the line:           *)
(*   <<"kw", W>>    the keyword W in any case; the replacement writes W    *)
(*   <<"keep", S>>  a keyword of S in any case, kept as written (a group)  *)
(*   <<"pub">>      public. in any case, dropped by the replacement        *)
(*   <<"pubcs">>    public. in lower case only, dropped                    *)
(*   <<"id">>       the identifier group, last in its pattern              *)
(*   <<"idws">>     the identifier group, followed by \s+ or a literal     *)
(*   <<"idq">>      the identifier group, followed by a closing quote      *)
(*   <<"skip", W>>  the keyword W in any case, dropped                     *)
(*   <<"ins", W>>   matches nothing; the replacement writes W              *)
(***************************************************************************)
IsPubCI(tok) == tok \in {PUB, PUBUP}

ElemMatches(e, tok) ==
    CASE e[1] = "kw" -> IsKw(tok, e[2])
      [] e[1] = "keep" -> Upper(tok) \in e[2]
      [] e[1] = "pub" -> IsPubCI(tok)
      [] e[1] = "pubcs" -> tok = PUB
      [] e[1] = "id" -> IsIdentStart(tok)
      [] e[1] = "idws" -> IsWholeIdent(tok)
      [] e[1] = "idq" -> tok \in QuotedEnd
      [] e[1] = "skip" -> IsKw(tok, e[2])
      [] OTHER -> FALSE

RECURSIVE MatchFrom(_, _, _, _)
\* pat[p..] matches the tokens of line from position i on
MatchFrom(line, i, pat, p) ==
    IF p > Len(pat) THEN TRUE
    ELSE IF pat[p][1] = "ins" THEN MatchFrom(line, i, pat, p + 1)
    ELSE /\ i <= Len(line)
         /\ ElemMatches(pat[p], line[i])
         /\ MatchFrom(line, i + 1, pat, p + 1)

RECURSIVE Consumed(_, _)
\* the number of tokens a match of pat[p..] spans
Consumed(pat, p) ==
    IF p > Len(pat) THEN 0
    ELSE (IF pat[p][1] = "ins" THEN 0 ELSE 1) + Consumed(pat, p + 1)

RECURSIVE Replacement(_, _, _, _)
\* the tokens the replacement string writes for a match of pat[p..] at i
Replacement(line, i, pat, p) ==
    IF p > Len(pat) THEN <<>>
    ELSE LET e == pat[p] IN
         CASE e[1] \in {"kw", "ins"} -> <<e[2]>> \o Replacement(line, IF e[1] = "ins" THEN i ELSE i + 1, pat, p + 1)
           [] e[1] \in {"pub", "pubcs", "skip"} -> Replacement(line, i + 1, pat, p + 1)
           [] OTHER -> <<line[i]>> \o Replacement(line, i + 1, pat, p + 1)

\* The first alternative of alts that matches at i, 0 when none does.
FirstMatch(line, i, alts) ==
    LET hits == {a \in 1..Len(alts) : MatchFrom(line, i, alts[a], 1)} IN
    IF hits = {} THEN 0 ELSE CHOOSE a \in hits : \A b \in hits : a <= b

RECURSIVE SubFrom(_, _, _)
\* re.sub(pattern, replacement, line): every non-overlapping match, leftmost
\* first, scanning from token i.
SubFrom(line, i, alts) ==
    IF i > Len(line) THEN <<>>
    ELSE LET a == FirstMatch(line, i, alts) IN
         IF a = 0 THEN <<line[i]>> \o SubFrom(line, i + 1, alts)
         ELSE Replacement(line, i, alts[a], 1)
                 \o SubFrom(line, i + Consumed(alts[a], 1), alts)

ReSub(alts, line) == SubFrom(line, 1, alts)

\* The keyword-anchored substitutions 1-10 and 12, in the order applied.
SubCreateTable == << <<"kw", "CREATE">>, <<"kw", "TABLE">>, <<"pub">>, <<"id">> >>
SubInsertInto == << <<"kw", "INSERT">>, <<"kw", "INTO">>, <<"pub">>, <<"id">> >>
SubAlterTableOnly ==
    << <<"kw", "ALTER">>, <<"kw", "TABLE">>, <<"skip", "ONLY">>, <<"pub">>, <<"id">> >>
SubAlterTable == << <<"kw", "ALTER">>, <<"kw", "TABLE">>, <<"pub">>, <<"id">> >>
SubCreateUniqueIndex ==
    << <<"kw", "CREATE">>, <<"keep", {"UNIQUE"}>>, <<"kw", "INDEX">>, <<"idws">>,
       <<"kw", "ON">>, <<"pub">>, <<"id">> >>
SubCreateIndex ==
    << <<"kw", "CREATE">>, <<"kw", "INDEX">>, <<"idws">>,
       <<"kw", "ON">>, <<"pub">>, <<"id">> >>
SubCreateSequence == << <<"kw", "CREATE">>, <<"kw", "SEQUENCE">>, <<"pub">>, <<"id">> >>
SubAlterSequence == << <<"kw", "ALTER">>, <<"kw", "SEQUENCE">>, <<"pub">>, <<"id">> >>
SubCopy == << <<"kw", "COPY">>, <<"pub">>, <<"id">> >>
SubReferences == << <<"kw", "REFERENCES">>, <<"pub">>, <<"id">> >>
SubSetval ==
    << <<"kw", "SELECT">>, <<"kw", "pg_catalog.setval('">>, <<"pub">>, <<"idq">> >>
SubDropIfExists ==
    << <<"kw", "DROP">>, <<"keep", {"TABLE", "SEQUENCE"}>>, <<"kw", "IF">>,
       <<"kw", "EXISTS">>, <<"pub">>, <<"id">> >>
SubDrop ==
    << <<"kw", "DROP">>, <<"keep", {"TABLE", "SEQUENCE"}>>, <<"ins", "IF">>,
       <<"ins", "EXISTS">>, <<"pub">>, <<"id">> >>
SubTrigger ==
    << <<"kw", "ON">>, <<"pub">>, <<"idws">>, <<"kw", "FOR">>, <<"kw", "EACH">> >>
\* 13, the catch-all: \bpublic\.([a-zA-Z_][a-zA-Z0-9_]*), without IGNORECASE.
SubCatchAll == << <<"pubcs">>, <<"id">> >>

\* 11: \b(GRANT|REVOKE)\s+(.+?)\s+ON\s+(?:TABLE\s+)?public\.(ident) becomes
\* \1 \2 ON \3.  OnTarget(line, j) is the number of tokens the tail
\* ON [TABLE] public.ident spans when it stands at j, 0 when it does not.
OnTarget(line, j) ==
    IF /\ j + 3 <= Len(line) /\ IsKw(line[j], "ON") /\ IsKw(line[j + 1], "TABLE")
       /\ IsPubCI(line[j + 2]) /\ IsIdentStart(line[j + 3])
    THEN 4
    ELSE IF /\ j + 2 <= Len(line) /\ IsKw(line[j], "ON")
            /\ IsPubCI(line[j + 1]) /\ IsIdentStart(line[j + 2])
    THEN 3
    ELSE 0

\* The positions of ON that a match starting at the GRANT/REVOKE at i can
\* end in: (.+?) is at least one token, followed by white space.
GrantTails(line, i) ==
    {j \in (i + 2)..Len(line) : OnTarget(line, j) > 0 /\ line[j - 1] \notin GlueTokens}

RECURSIVE GrantSubFrom(_, _)
GrantSubFrom(line, i) ==
    IF i > Len(line) THEN <<>>
    ELSE IF Upper(line[i]) \in {"GRANT", "REVOKE"} /\ GrantTails(line, i) # {}
    THEN LET j == CHOOSE k \in GrantTails(line, i) : \A m \in GrantTails(line, i) : k <= m
             n == OnTarget(line, j)
         IN  SubSeq(line, i, j - 1) \o <<"ON", line[j + n - 1]>>
                 \o GrantSubFrom(line, j + n)
    ELSE <<line[i]>> \o GrantSubFrom(line, i + 1)

\* The substitutions applied to a line read outside a COPY block.
RemoveSchemaPrefix(line) ==
    LET l1 == ReSub(<<SubCreateTable>>, line)
        l2 == ReSub(<<SubInsertInto>>, l1)
        l3 == ReSub(<<SubAlterTableOnly, SubAlterTable>>, l2)
        l4 == ReSub(<<SubCreateUniqueIndex, SubCreateIndex>>, l3)
        l5 == ReSub(<<SubCreateSequence>>, l4)
        l6 == ReSub(<<SubAlterSequence>>, l5)
        l7 == ReSub(<<SubCopy>>, l6)
        l8 == ReSub(<<SubReferences>>, l7)
        l9 == ReSub(<<SubSetval>>, l8)
        l10 == ReSub(<<SubDropIfExists, SubDrop>>, l9)
        l11 == GrantSubFrom(l10, 1)
        l12 == ReSub(<<SubTrigger>>, l11)
    IN  ReSub(<<SubCatchAll>>, l12)

(***************************************************************************)
(* _clean_sql_content: one iteration of "for line in lines".               *)
(***************************************************************************)
\* Which branch of the loop body the line takes.
Branch(line, in_copy) ==
    IF CopyStart(line) THEN "copy_start"
    ELSE IF CopyEnd(line) THEN "copy_end"
    ELSE IF in_copy THEN "in_copy"
    ELSE IF MatchesSkipPattern(line) THEN "skip"
    ELSE "outside"

\* The line a COPY start line is appended as.
CopyStartLine(line, remove) == IF remove THEN ReSub(<<SubCopy>>, line) ELSE line

\* The line a line read outside a COPY block is turned into.
OutsideLine_AlwaysStrips(line, remove) == RemoveSchemaPrefix(line)
OutsideLine(line, remove) == IF remove THEN RemoveSchemaPrefix(line) ELSE line

\* What the iteration appends to cleaned_lines: no line or one.
Emitted(line, in_copy, remove) ==
    LET br == Branch(line, in_copy) IN
    CASE br = "copy_start" -> <<CopyStartLine(line, remove)>>
      [] br = "copy_end" -> <<line>>
      [] br = "in_copy" -> <<line>>
      [] br = "skip" -> <<>>
      [] OTHER -> IF StripsToEmpty(OutsideLine(line, remove)) THEN <<>>
                  ELSE <<OutsideLine(line, remove)>>

\* in_copy_block after the iteration.
InCopyAfter(line, in_copy) ==
    LET br == Branch(line, in_copy) IN
    CASE br = "copy_start" -> TRUE
      [] br = "copy_end" -> FALSE
      [] OTHER -> in_copy

\* The text "" as content.split('\n') gives it: one empty line.
EmptyText == << <<>> >>

\* '\n'.join(cleaned_lines), as the lines of the joined text.
Join(ls) == IF ls = <<>> THEN EmptyText ELSE ls

\* not content.strip()
IsBlankText(text) == \A i \in 1..Len(text) : StripsToEmpty(text[i])

\* The loop over the lines from line i on, entered with in_copy_block =
\* in_copy: what each iteration appends to cleaned_lines, in the order of the
\* lines read, the flag being carried from one iteration to the next.
RECURSIVE CleanFrom(_, _, _, _)
CleanFrom(text, i, in_copy, remove) ==
    IF i > Len(text) THEN <<>>
    ELSE Emitted(text[i], in_copy, remove)
            \o CleanFrom(text, i + 1, InCopyAfter(text[i], in_copy), remove)

\* cleaned_lines when the loop is over; in_copy_block starts False.
CleanLoop(text, remove) == CleanFrom(text, 1, FALSE, remove)

\* _clean_sql_content(content, remove_schema_prefix) as a function of its input.
CleanSqlContent(text, remove) ==
    IF IsBlankText(text) THEN EmptyText
    ELSE Join(CleanLoop(text, remove))

(***************************************************************************)
(* The cleaner as a state machine: one call of _clean_sql_content, line by *)
(* line, then a second call on the text the first returned (in one step).  *)
(***************************************************************************)
\* The lines the documents of the model are made of.
LineSet ==
    { <<>>,
      <<"--", "note">>,
      <<"\\connect", "db">>,
      <<"SET", "search_path">>,
      <<"SET", "synchronous_commit">>,
      <<"COPY", PUB, "t">>,
      <<"COPY", "t">>,
      <<"COPY", PUB, "\"Order\"">>,
      <<"\\.">>,
      <<INDENT, "\\.">>,
      <<"1", PUB, "t">>,
      <<PUB, PUB, "t">>,
      <<"CREATE", "TABLE", PUB, "t">>,
      <<"CREATE", "TABLE", PUB, "t", "(id integer, val text);">>,
      <<"CREATE", "TABLE", PUB, "\"Order\"">>,
      <<"ALTER", "TABLE", "ONLY", PUB, "t">> }

RECURSIVE SeqsUpTo(_, _)
\* The sequences over S of length 0..n.
SeqsUpTo(S, n) ==
    IF n = 0 THEN {<<>>}
    ELSE LET shorter == SeqsUpTo(S, n - 1) IN
         shorter \cup {Append(q, x) : q \in shorter, x \in S}

\* The texts given to the cleaner: one line or more (split never gives none).
Docs == SeqsUpTo(LineSet, MaxLines) \ {<<>>}

NoText == <<"none">>

CleanInit ==
    /\ content \in Docs
    /\ remove_schema_prefix \in BOOLEAN
    /\ cpc = "call"
    /\ lines = <<>>
    /\ lineNo = 0
    /\ in_copy_block = FALSE
    /\ cleaned_lines = <<>>
    /\ origin = <<>>
    /\ returned = NoText
    /\ pass = 1
    /\ first_input = content
    /\ first_returned = NoText

\* if not content.strip(): return ""
CleanReturnBlank ==
    /\ cpc = "call"
    /\ IsBlankText(content)
    /\ returned' = EmptyText
    /\ cpc' = "returned"
    /\ UNCHANGED <<content, remove_schema_prefix, lines, lineNo, in_copy_block,
                   cleaned_lines, origin, pass, first_input, first_returned>>
    /\ UNCHANGED <<vvars, bvars, fvars, wvars>>

\* lines = content.split('\n'); cleaned_lines = []; in_copy_block = False
CleanSplit ==
    /\ cpc = "call"
    /\ ~IsBlankText(content)
    /\ lines' = content
    /\ lineNo' = 1
    /\ in_copy_block' = FALSE
    /\ cleaned_lines' = <<>>
    /\ origin' = <<>>
    /\ cpc' = "loop"
    /\ UNCHANGED <<content, remove_schema_prefix, returned, pass, first_input,
                   first_returned>>
    /\ UNCHANGED <<vvars, bvars, fvars, wvars>>

\* One iteration of the loop, for the line that takes branch br.
CleanIteration(br) ==
    /\ cpc = "loop"
    /\ lineNo <= Len(lines)
    /\ Branch(lines[lineNo], in_copy_block) = br
    /\ LET out == Emitted(lines[lineNo], in_copy_block, remove_schema_prefix) IN
         /\ cleaned_lines' = cleaned_lines \o out
         /\ origin' = IF out = <<>> THEN origin ELSE Append(origin, lineNo)
    /\ in_copy_block' = InCopyAfter(lines[lineNo], in_copy_block)
    /\ lineNo' = lineNo + 1
    /\ UNCHANGED <<content, remove_schema_prefix, cpc, lines, returned, pass,
                   first_input, first_returned>>
    /\ UNCHANGED <<vvars, bvars, fvars, wvars>>

CleanCopyStart == CleanIteration("copy_start")
CleanCopyEnd == CleanIteration("copy_end")
CleanInCopyBlock == CleanIteration("in_copy")
CleanSkip == CleanIteration("skip")
CleanOutside == CleanIteration("outside")

\* return '\n'.join(cleaned_lines)
CleanReturn ==
    /\ cpc = "loop"
    /\ lineNo > Len(lines)
    /\ returned' = Join(cleaned_lines)
    /\ cpc' = "returned"
    /\ UNCHANGED <<content, remove_schema_prefix, lines, lineNo, in_copy_block,
                   cleaned_lines, origin, pass, first_input, first_returned>>
    /\ UNCHANGED <<vvars, bvars, fvars, wvars>>

\* The cleaner is called again on the text it returned, with the same flag.
CleanAgain ==
    /\ cpc = "returned"
    /\ pass = 1
    /\ first_returned' = returned
    /\ content' = returned
    /\ returned' = CleanSqlContent(returned, remove_schema_prefix)
    /\ pass' = 2
    /\ UNCHANGED <<remove_schema_prefix, cpc, lines, lineNo, in_copy_block,
                   cleaned_lines, origin, first_input>>
    /\ UNCHANGED <<vvars, bvars, fvars, wvars>>

CleanNext ==
    \/ CleanReturnBlank
    \/ CleanSplit
    \/ CleanCopyStart
    \/ CleanCopyEnd
    \/ CleanInCopyBlock
    \/ CleanSkip
    \/ CleanOutside
    \/ CleanReturn
    \/ CleanAgain

(***************************************************************************)
(* The predicate builders (filters/common_filters.py).  The text of a      *)
(* statement is a sequence of units: a unit is a run of characters that    *)
(* the builders and str.find treat as a whole ("WHERE", a space, a part of *)
(* a name).  A name is a sequence of units too: the table somewhere is     *)
(* <<"some", "where">>.                                                    *)
(***************************************************************************)
\* params.get('schema', 'public'); an empty name stands for a missing key.
Absent == <<>>
ParamsGet(ps, default) == IF ps.schema = Absent THEN default ELSE ps.schema

\* f"SELECT * FROM {schema}.{table_name}"
SelectFrom(schema, tbl) == <<"SELECT * FROM ">> \o schema \o <<".">> \o tbl

\* f"{...} WHERE {condition}"
WithWhere(select, condition) == select \o <<" ", "WHERE", " ">> \o condition

\* DateRangeFilter('created_at', '2024-01-01', '2024-12-31', inclusive)
DateRangeCondition(inclusive) ==
    IF inclusive
    THEN <<"created_at", " BETWEEN '", "2024-01-01", "' AND '", "2024-12-31", "'">>
    ELSE <<"created_at", " >= '", "2024-01-01", "' AND ", "created_at", " < '",
           "2024-12-31", "'">>

\* ForeignKeyFilter('customer_id', fk_values): the condition for a list of
\* values, empty or not.
ForeignKeyCondition_SelectsAll(fk_values) == <<"1=1">>
ForeignKeyCondition(fk_values) ==
    IF fk_values = <<>> THEN <<"1=0">>
    ELSE <<"customer_id", " IN (", fk_values[1], ")">>

\* StatusFilter('status', allowed_statuses, excluded_statuses)
StatusCondition(allowed_statuses, excluded_statuses) ==
    IF allowed_statuses # <<>> THEN <<"status", " IN (", allowed_statuses[1], ")">>
    ELSE IF excluded_statuses # <<>>
    THEN <<"status", " NOT IN (", excluded_statuses[1], ")">>
    ELSE <<"1=1">>

\* The filters a CompositeFilter is made of: the class and how the object
\* was constructed.
PredicateBuilders ==
    { <<"DateRangeFilter", "inclusive">>, <<"DateRangeFilter", "exclusive">>,
      <<"ForeignKeyFilter", "no values">>, <<"ForeignKeyFilter", "values">>,
      <<"StatusFilter", "allowed">>, <<"StatusFilter", "excluded">>,
      <<"StatusFilter", "neither">> }
SubFilterPool ==
    PredicateBuilders
        \cup { <<"CustomQueryFilter", "no condition">>, <<"CompositeFilter", "empty">> }

\* The condition a predicate builder renders after WHERE.
ConditionOf(f) ==
    CASE f = <<"DateRangeFilter", "inclusive">> -> DateRangeCondition(TRUE)
      [] f = <<"DateRangeFilter", "exclusive">> -> DateRangeCondition(FALSE)
      [] f = <<"ForeignKeyFilter", "no values">> -> ForeignKeyCondition(<<>>)
      [] f = <<"ForeignKeyFilter", "values">> -> ForeignKeyCondition(<<"123, 456">>)
      [] f = <<"StatusFilter", "allowed">> -> StatusCondition(<<"'active'">>, <<>>)
      [] f = <<"StatusFilter", "excluded">> -> StatusCondition(<<>>, <<"'deleted'">>)
      [] OTHER -> StatusCondition(<<>>, <<>>)

\* f.build(table_name, **params) for a filter of the pool.  A
\* CustomQueryFilter returns the query it was given, here one without WHERE;
\* a CompositeFilter without filters returns the statement without WHERE.
Build(f, tbl, ps) ==
    IF f \in PredicateBuilders
    THEN WithWhere(SelectFrom(ParamsGet(ps, <<"public">>), tbl), ConditionOf(f))
    ELSE IF f = <<"CompositeFilter", "empty">>
    THEN SelectFrom(ParamsGet(ps, <<"public">>), tbl)
    ELSE <<"SELECT * FROM ", "audit_log">>

\* query.upper().find('WHERE'): the first unit that reads WHERE in capitals,
\* 0 when there is none (find returns -1).
Find(query) ==
    LET hits == {i \in 1..Len(query) : query[i] \in {"WHERE", "where"}} IN
    IF hits = {} THEN 0 ELSE CHOOSE i \in hits : \A j \in hits : i <= j

RECURSIVE Strip(_)
\* str.strip(): without the white space at both ends.
Strip(text) ==
    IF text = <<>> THEN <<>>
    ELSE IF text[1] = " " THEN Strip(Tail(text))
    ELSE IF text[Len(text)] = " " THEN Strip(SubSeq(text, 1, Len(text) - 1))
    ELSE text

RECURSIVE JoinWith(_, _)
\* separator.join(parts)
JoinWith(separator, parts) ==
    IF parts = <<>> THEN <<>>
    ELSE IF Len(parts) = 1 THEN parts[1]
    ELSE parts[1] \o separator \o JoinWith(separator, Tail(parts))

(***************************************************************************)
(* CompositeFilter.build(table_name, **params), step by step.              *)
(***************************************************************************)
TableNames == { <<"orders">>, <<"some", "where">> }
ParamChoices == { [schema |-> Absent], [schema |-> <<"as_59">>] }

FilterInit ==
    /\ sub_filters \in SeqsUpTo(SubFilterPool, MaxSubFilters)
    /\ operator \in {"AND", "OR"}
    /\ table_name \in TableNames
    /\ params \in ParamChoices
    /\ fpc = "call"
    /\ fpos = 0
    /\ conditions = <<>>
    /\ statement = <<>>

\* if not self.filters: return the statement without condition
CompositeEmpty ==
    /\ fpc = "call"
    /\ sub_filters = <<>>
    /\ statement' = SelectFrom(ParamsGet(params, <<"public">>), table_name)
    /\ fpc' = "returned"
    /\ UNCHANGED <<sub_filters, operator, table_name, params, fpos, conditions>>
    /\ UNCHANGED <<cvars, vvars, bvars, wvars>>

\* conditions = []; for f in self.filters:
CompositeEnter ==
    /\ fpc = "call"
    /\ sub_filters # <<>>
    /\ conditions' = <<>>
    /\ fpos' = 1
    /\ fpc' = "loop"
    /\ UNCHANGED <<sub_filters, operator, table_name, params, statement>>
    /\ UNCHANGED <<cvars, vvars, bvars, wvars>>

\* One iteration in which WHERE is found: what follows the five characters
\* is stripped, parenthesized and appended.
CompositeExtract ==
    /\ fpc = "loop"
    /\ fpos <= Len(sub_filters)
    /\ LET query == Build(sub_filters[fpos], table_name, params)
           where_idx == Find(query)
       IN  /\ where_idx # 0
           /\ conditions' = Append(conditions,
                  <<"(">> \o Strip(SubSeq(query, where_idx + 1, Len(query))) \o <<")">>)
    /\ fpos' = fpos + 1
    /\ UNCHANGED <<sub_filters, operator, table_name, params, fpc, statement>>
    /\ UNCHANGED <<cvars, vvars, bvars, wvars>>

\* One iteration in which WHERE is not found: nothing is appended.
CompositeSkip ==
    /\ fpc = "loop"
    /\ fpos <= Len(sub_filters)
    /\ Find(Build(sub_filters[fpos], table_name, params)) = 0
    /\ fpos' = fpos + 1
    /\ UNCHANGED <<sub_filters, operator, table_name, params, fpc, conditions, statement>>
    /\ UNCHANGED <<cvars, vvars, bvars, wvars>>

\* if not conditions: return the statement without condition
CompositeNoConditions ==
    /\ fpc = "loop"
    /\ fpos > Len(sub_filters)
    /\ conditions = <<>>
    /\ statement' = SelectFrom(ParamsGet(params, <<"public">>), table_name)
    /\ fpc' = "returned"
    /\ UNCHANGED <<sub_filters, operator, table_name, params, fpos, conditions>>
    /\ UNCHANGED <<cvars, vvars, bvars, wvars>>

\* combined_condition = f" {self.operator} ".join(conditions); return
CompositeJoin ==
    /\ fpc = "loop"
    /\ fpos > Len(sub_filters)
    /\ conditions # <<>>
    /\ statement' = WithWhere(SelectFrom(ParamsGet(params, <<"public">>), table_name),
                              JoinWith(<<" ", operator, " ">>, conditions))
    /\ fpc' = "returned"
    /\ UNCHANGED <<sub_filters, operator, table_name, params, fpos, conditions>>
    /\ UNCHANGED <<cvars, vvars, bvars, wvars>>

FilterNext ==
    \/ CompositeEmpty
    \/ CompositeEnter
    \/ CompositeExtract
    \/ CompositeSkip
    \/ CompositeNoConditions
    \/ CompositeJoin

(***************************************************************************)
(* The database and the filters.                                           *)
(*                                                                         *)
(* The driver is psycopg2 as _connect opens it: autocommit is off, so the  *)
(* statements of a connection run in one transaction, and once a statement *)
(* fails on the server every later statement of that connection fails      *)
(* ("current transaction is aborted") until a rollback.  The engine never  *)
(* calls rollback and never sets autocommit.                               *)
(***************************************************************************)
\* The tables of the catalog, in the order of ORDER BY table_name.
TableOrder == <<"A", "B", "C">>
Tables == {TableOrder[i] : i \in 1..Len(TableOrder)}

\* What a caller can put into the filters mapping for a table:
\*   "sql"        a SELECT given as a string, which runs
\*   "badsql"     a string the server rejects
\*   "builder"    a FilterQuery object; build(table_name) renders a SELECT
\*   "fk_empty"   a ForeignKeyFilter constructed with an empty list of values
\*   "notfilter"  a value that is neither a string nor has a build method
\*   "none"       no entry for the table
FilterKinds == {"sql", "badsql", "builder", "fk_empty", "notfilter"}
NoFilter == "none"

\* The tables the mapping has an entry for, in the order the dict yields them.
FilterTables(fmap) ==
    SelectSeq(TableOrder, LAMBDA t : fmap[t] # NoFilter)

\* if filters: ...  (None and {} are both false)
HasFilters(fmap) == \E t \in Tables : fmap[t] # NoFilter

\* filter_query.build(table_name) as the server reads the statement: whether
\* its condition can hold, and the schema and the table it selects from.
\* build is called without keyword arguments.
Rendered(f, t) ==
    LET query == Build(f, <<t>>, [schema |-> Absent])
        condition == SubSeq(query, Find(query) + 2, Len(query))
    IN  <<IF condition = <<"1=0">> THEN "where_false" ELSE "where", query[2], query[4]>>

\* _resolve_filter_query: the query, or the FilterValidationError it raises.
\* build(table_name) is called without a schema, so a builder renders
\* SELECT * FROM public.<table> WHERE ...
ResolveFilterQuery(t, kind) ==
    CASE kind \in {"sql", "badsql"} -> [raised |-> FALSE, q |-> <<"filter", kind, t>>]
      [] kind = "builder" ->
            [raised |-> FALSE, q |-> Rendered(<<"DateRangeFilter", "inclusive">>, t)]
      [] kind = "fk_empty" ->
            [raised |-> FALSE, q |-> Rendered(<<"ForeignKeyFilter", "no values">>, t)]
      [] OTHER -> [raised |-> TRUE, q |-> <<"invalid filter", t>>]

\* QueryBuilder.build_select_all
BuildSelectAll(t, schema) == <<"select_all", schema, t>>

\* _build_query_for_table
BuildQueryForTable(t, fmap, schema) ==
    IF HasFilters(fmap) /\ fmap[t] # NoFilter
    THEN ResolveFilterQuery(t, fmap[t])
    ELSE [raised |-> FALSE, q |-> BuildSelectAll(t, schema)]

\* The server rejects the query whatever the data (a string it cannot run).
Rejected(q) == q[1] = "filter" /\ q[2] = "badsql"

\* The text of the error cursor.execute raises for q on a connection whose
\* transaction is aborted or not.
ExecuteError(q, abortedTx) ==
    IF abortedTx THEN "current transaction is aborted" ELSE "error in query"

(***************************************************************************)
(* _validate_filters, filter by filter.                                    *)
(***************************************************************************)
NoError == [kind |-> "none", names |-> <<>>]

\* The errors the loop body collects for the filter of t, given its query.
FilterErrors(q, abortedTx) ==
    IF abortedTx \/ Rejected(q) THEN <<ExecuteError(q, abortedTx)>> ELSE <<>>

\* failed_tables = {t: e for t, e in validation_results.items() if e}
FailedTables(results) == {t \in DOMAIN results : results[t] # <<>>}

ValidateInit ==
    /\ vfilters \in [Tables -> FilterKinds \cup {NoFilter}]
    /\ vpc = "call"
    /\ vconn = 0
    /\ vaborted = FALSE
    /\ vpos = 0
    /\ validation_results = <<>>
    /\ verror = NoError

\* if not filters: return {}
ValidateNothing ==
    /\ vpc = "call"
    /\ ~HasFilters(vfilters)
    /\ vpc' = "returned"
    /\ UNCHANGED <<vfilters, vconn, vaborted, vpos, validation_results, verror>>
    /\ UNCHANGED <<cvars, bvars, fvars, wvars>>

\* conn = self._connect(), which raises DatabaseConnectionError or connects
ValidateConnect ==
    /\ vpc = "call"
    /\ HasFilters(vfilters)
    /\ \E ok \in BOOLEAN :
          IF ok
          THEN /\ vconn' = vconn + 1
               /\ vpos' = 1
               /\ vpc' = "loop"
               /\ verror' = verror
          ELSE /\ vpc' = "raised"
               /\ verror' = [kind |-> "DatabaseConnectionError", names |-> <<>>]
               /\ UNCHANGED <<vconn, vpos>>
    /\ UNCHANGED <<vfilters, vaborted, validation_results>>
    /\ UNCHANGED <<cvars, bvars, fvars, wvars>>

\* One iteration whose filter does not render: _resolve_filter_query raises
\* outside the try block, and the error leaves _validate_filters.
ValidateRenderFails ==
    /\ vpc = "loop"
    /\ vpos <= Len(FilterTables(vfilters))
    /\ LET t == FilterTables(vfilters)[vpos]
           r == ResolveFilterQuery(t, vfilters[t])
       IN  /\ r.raised
           /\ vpc' = "raised"
           /\ verror' = [kind |-> "FilterValidationError", names |-> <<t>>]
    /\ UNCHANGED <<vfilters, vconn, vaborted, vpos, validation_results>>
    /\ UNCHANGED <<cvars, bvars, fvars, wvars>>

\* One iteration whose filter renders: the zero-row query is executed.
ValidateExecute ==
    /\ vpc = "loop"
    /\ vpos <= Len(FilterTables(vfilters))
    /\ LET t == FilterTables(vfilters)[vpos]
           r == ResolveFilterQuery(t, vfilters[t])
       IN  /\ ~r.raised
           /\ validation_results' =
                 [u \in DOMAIN validation_results \cup {t} |->
                     IF u = t THEN FilterErrors(r.q, vaborted)
                     ELSE validation_results[u]]
           /\ vaborted' = (vaborted \/ Rejected(r.q))
    /\ vpos' = vpos + 1
    /\ UNCHANGED <<vfilters, vpc, vconn, verror>>
    /\ UNCHANGED <<cvars, bvars, fvars, wvars>>

\* conn.close(), then the check of failed_tables.
ValidateFinish ==
    /\ vpc = "loop"
    /\ vpos > Len(FilterTables(vfilters))
    /\ vconn' = vconn - 1
    /\ IF FailedTables(validation_results) # {}
       THEN /\ vpc' = "raised"
            /\ verror' = [kind |-> "FilterValidationError",
                          names |-> SelectSeq(TableOrder,
                              LAMBDA t : t \in FailedTables(validation_results))]
       ELSE /\ vpc' = "returned"
            /\ verror' = verror
    /\ UNCHANGED <<vfilters, vaborted, vpos, validation_results>>
    /\ UNCHANGED <<cvars, bvars, fvars, wvars>>

ValidateNext ==
    \/ ValidateNothing
    \/ ValidateConnect
    \/ ValidateRenderFails
    \/ ValidateExecute
    \/ ValidateFinish

(***************************************************************************)
(* The database the backup reads, and the text it writes.                  *)
(***************************************************************************)
Schemas == {"public", "as_59"}

\* get_all_tables(schema), executed: the base tables of the schema by name.
Catalog(schema) == IF schema = "public" THEN TableOrder ELSE <<"A", "B">>

\* The rows each table holds (no session writes while the engine runs).
RowsOf(schema, t) ==
    IF schema = "public" THEN [A |-> 2, B |-> 1, C |-> 0][t]
    ELSE [A |-> 1, B |-> 2, C |-> 0][t]

\* The rows a query selects: all of the table, or the part a filter keeps.
\* A filter reads the schema its text names, public for the builders.
Selected(q) ==
    CASE q[1] = "select_all" -> RowsOf(q[2], q[3])
      [] q[1] = "where" -> RowsOf(q[2], q[3]) - 1
      [] q[1] = "where_false" -> 0
      [] OTHER -> IF RowsOf("public", q[3]) > 0 THEN 1 ELSE 0

\* [desc[0] for desc in cursor.description] after the zero-row statement for
\* the query: the columns of the table, or those a filter given as SQL text
\* selects.
ColumnNames(q) == IF q[1] = "filter" THEN <<"id">> ELSE <<"id", "val">>

\* ', '.join(column_names)
ColumnsStr(column_names) ==
    IF Len(column_names) = 1 THEN column_names[1] ELSE "id, val"

NoSchema == "None"
NoFile == <<"no file">>

\* BackupConfig defaults that the model keeps fixed.
IncludeHeader == TRUE
ConfigTargetSchema == NoSchema

Banner(title) == << <<"--", "====">>, <<"--", title>>, <<"--", "====">>, <<>> >>

\* _write_header
HeaderBlock(target, fmap) ==
    IF ~IncludeHeader THEN <<>>
    ELSE << <<"--", "PostgreSQL Database Backup">>,
            <<"--", "Generated:", "ts">>,
            <<"--", "Database:", "db">>,
            <<"--", "Using COPY format for fast restore">> >>
         \o (IF target # NoSchema
             THEN << <<"--", "Target schema:", target>> >> ELSE <<>>)
         \o (IF HasFilters(fmap)
             THEN << <<"--", "Filtered tables:", "n">> >> ELSE <<>>)
         \o << <<>> >>

\* QueryBuilder.build_schema_setup(schema_name, drop_existing=True)
BuildSchemaSetup(target) ==
    << <<"DROP", "SCHEMA", "IF", "EXISTS", target, "CASCADE;">>,
       <<"CREATE", "SCHEMA", target, ";">>,
       <<"SET", "search_path", "=", target, ",", "public;">> >>

\* _write_schema_setup
SchemaSetupBlock(target) ==
    Banner("SCHEMA SETUP") \o BuildSchemaSetup(target) \o << <<>> >>

\* QueryBuilder.build_performance_settings with both flags at their default
BuildPerformanceSettings ==
    << <<"SET", "session_replication_role", "=", "replica;">>,
       <<"SET", "synchronous_commit", "=", "off;">> >>

\* _write_performance_settings
PerformanceBlock ==
    Banner("PERFORMANCE OPTIMIZATIONS") \o BuildPerformanceSettings \o << <<>> >>

\* The three writes before the cursor is opened.
Preamble_SettingsFirst(target, fmap) ==
    HeaderBlock(target, fmap)
        \o PerformanceBlock
        \o (IF target # NoSchema THEN SchemaSetupBlock(target) ELSE <<>>)
Preamble(target, fmap) ==
    HeaderBlock(target, fmap)
        \o (IF target # NoSchema THEN SchemaSetupBlock(target) ELSE <<>>)
        \o PerformanceBlock

\* The banner written once the catalog query has returned.
TablesBanner == Banner("TABLE STRUCTURES AND DATA")

\* The qualifier pg_dump writes in front of a table of the schema.
Qualifier(schema) == IF schema = "public" THEN PUB ELSE "as_59."

\* pg_dump --schema-only --table schema.table: its standard output.
PgDumpOutput(schema, t) ==
    << <<"\\restrict", "key">>,
       <<"SET", "client_encoding", "=", "'UTF8';">>,
       <<"CREATE", "TABLE", Qualifier(schema), t, "(id integer, val text);">>,
       <<"\\unrestrict", "key">> >>

\* re.sub(r'^\s*\\[a-zA-Z]+\s+.*$', '', text, flags=re.MULTILINE): a line
\* that is a meta-command becomes an empty line.
BlankMetaCommands(text) ==
    [i \in 1..Len(text) |->
        IF Len(Body(text[i])) >= 2 /\ Body(text[i])[1] \in MetaTokens
        THEN <<>> ELSE text[i]]

\* _dump_table_structure when pg_dump exits with 0.  (The text has no run of
\* two empty lines, which re.sub(r'\n\n\n+', '\n\n', ...) would shorten.)
StructureBlock(schema, t) ==
    << <<>>, <<"--", "Table structure for:", t>> >>
        \o BlankMetaCommands(PgDumpOutput(schema, t))
        \o << <<>> >>

\* The defaults of quote_char and escape_char in build_copy_from and in
\* build_copy_to; _backup_table passes neither.
CopyFromQuote == "\\b"
CopyFromEscape == "\\b"
CopyToQuote == "\\b"
CopyToEscape == "\\b"

\* BackupConfig.copy_delimiter and copy_null_string at their defaults.
CopyDelimiter == "\\t"
CopyNullString == "\\N"

\* QueryBuilder.build_copy_from(table_name, column_names, delimiter, null_string)
BuildCopyFrom_DefaultDelimiter(t, column_names, delimiter, null_string) ==
    <<"COPY", t, "(", ColumnsStr(column_names), ")", "FROM", "stdin", "WITH",
      "(FORMAT CSV,", "DELIMITER", CopyDelimiter, "NULL", null_string,
      "QUOTE", CopyFromQuote, "ESCAPE", CopyFromEscape, ")">>
BuildCopyFrom(t, column_names, delimiter, null_string) ==
    <<"COPY", t, "(", ColumnsStr(column_names), ")", "FROM", "stdin", "WITH",
      "(FORMAT CSV,", "DELIMITER", delimiter, "NULL", null_string,
      "QUOTE", CopyFromQuote, "ESCAPE", CopyFromEscape, ")">>

\* The statements sent to the server, each for the query it wraps:
\* QueryBuilder.get_column_structure, get_row_count and build_copy_to, the
\* last with the options it writes after WITH.
GetColumnStructure(q) == <<"columns", q>>
GetRowCount(q) == <<"count", q>>
BuildCopyTo(q, delimiter, null_string) ==
    <<"copy", q, delimiter, null_string, CopyToQuote, CopyToEscape>>

\* The rows copy_expert streams for a query that selects n rows, row by row.
DataRows(t, n) == [i \in 1..n |-> <<"1", "x">>]

\* The lines written before copy_expert is called, for row_count > 0.
DataHeader(t, n, column_names) ==
    << <<>>, <<"--", "Data for table:", t>>, <<"--", "Rows:", ToString(n)>>,
       BuildCopyFrom(t, column_names, copy_delimiter, copy_null_string) \o <<";">> >>

Terminator == << <<"\\.">>, <<>> >>

\* The lines written for row_count = 0.
NoRowsBlock(t) ==
    << <<>>, <<"--", "Data for table:", t>>,
       <<"--", "No rows to export (filtered or empty)">>, <<>> >>

\* The lines the loop writes when _backup_table raised.
ErrorBlock(t, message) ==
    << <<>>, <<"--", "ERROR backing up table:", t>>, <<"--", message>>, <<>> >>

\* _write_footer
FooterBlock ==
    Banner("FINALIZATION")
        \o << <<"--", "Re-enable optimizations">>,
              <<"SET", "session_replication_role", "=", "DEFAULT;">>,
              <<"SET", "synchronous_commit", "=", "on;">>,
              <<"ANALYZE;">>,
              <<>>,
              <<"--", "Backup completed:", "ts">> >>

\* The header _clean_backup_file writes when a target schema is given.
CleanedHeader(target_schema) ==
    << <<"--", "Cleaned SQL backup">>,
       <<"--", "Target schema:", target_schema>>,
       <<"--", "Generated:", "ts">>,
       <<>>,
       <<"--", "Set search path to target schema">>,
       <<"SET", "search_path", "=", target_schema, ",", "public;">>,
       <<>> >>

\* f.read() of a file whose lines all end in a newline: split('\n') gives the
\* lines and one empty string after the last newline.
ReadText(file) == file \o << <<>> >>

\* What _clean_backup_file writes to the output file.  The last line of the
\* cleaned text has no newline; the file keeps its lines.
CleanedFile(file, target) ==
    LET target_schema == IF target # NoSchema THEN target ELSE ConfigTargetSchema
        cleaned == CleanSqlContent(ReadText(file), TRUE)
    IN  (IF target_schema # NoSchema THEN CleanedHeader(target_schema) ELSE <<>>)
            \o (IF cleaned = EmptyText THEN <<>> ELSE cleaned)

(***************************************************************************)
(* backup() and estimate_size() as a state machine.  One run of backup()   *)
(* from its call to its return, step by step; every step that can fail     *)
(* either succeeds or raises.  A caller then may call estimate_size() with *)
(* the same filters.                                                       *)
(***************************************************************************)
None == "None"
NoExc == [kind |-> None, message |-> None]
OutputPath == "output_path"
TempPath == "postgres_backup_temp_.sql"

\* A file left at the destination by an earlier run.
OldFile == << <<"--", "an earlier backup">> >>

\* The filter mappings a run is called with.
NoFilters == [t \in Tables |-> NoFilter]
FilterChoices ==
    { NoFilters,
      [NoFilters EXCEPT !["B"] = "sql"],
      [NoFilters EXCEPT !["A"] = "builder"],
      [NoFilters EXCEPT !["A"] = "fk_empty"],
      [NoFilters EXCEPT !["B"] = "badsql"],
      [NoFilters EXCEPT !["A"] = "notfilter", !["B"] = "sql"] }

ExcludedChoices == { {}, {"B"}, {"A", "C"} }

\* The copy_delimiter and copy_null_string a configuration has: the defaults,
\* or a comma and the text NA.
CopyFormats == { <<CopyDelimiter, CopyNullString>>, <<",", "NA">> }

\* BackupResult(success=False); stats is an empty dict, and so is metadata,
\* of which the model keeps the key 'cleaned'.
\* The metadata argument: None (the default), an empty mapping, a mapping
\* with an item.
NoMetadata == [passed |-> FALSE, items |-> {}]
MetadataChoices ==
    {NoMetadata, [passed |-> TRUE, items |-> {}],
     [passed |-> TRUE, items |-> {<<"label", "nightly">>}]}

\* bool(metadata): None and the empty mapping are false.
Truthy(mapping) == mapping.passed /\ mapping.items # {}

\* metadata or {}: the object result.metadata is bound to (the caller's
\* mapping or a new one) and its items.
MetadataOr(mapping) ==
    IF Truthy(mapping) THEN [object |-> "argument", items |-> mapping.items]
    ELSE [object |-> "new", items |-> {}]

\* BackupResult(success=False): metadata and stats are new empty mappings;
\* cleaned is result.metadata.get('cleaned', False).
NewResult ==
    [success |-> FALSE, file_path |-> None, tables_count |-> 0, total_rows |-> 0,
     error_message |-> None, metadata |-> [object |-> "new", items |-> {}],
     stats |-> <<>>, cleaned |-> FALSE]

\* stats = {'tables_count': 0, 'total_rows': 0, 'tables': {}}
NewStats == [tables_count |-> 0, total_rows |-> 0, tables |-> <<>>]

\* The file system a run finds: no output directory, or the directory with
\* the file of an earlier run at the destination.
FileSystems ==
    { [dir |-> FALSE, temp |-> NoFile, dest |-> NoFile],
      [dir |-> TRUE, temp |-> NoFile, dest |-> OldFile] }

\* The target schema names a caller passes: an identifier, and a name with a
\* hyphen in it.
TargetNames == {"tgt", "my-schema"}

\* The characters of a target schema name.
Spelling(name) ==
    IF name = "tgt" THEN <<"t", "g", "t">>
    ELSE <<"m", "y", "-", "s", "c", "h", "e", "m", "a">>

\* backup(output_path, filters, schema_name, metadata, source_schema) is
\* called: the state of the run before its first statement.
BackupCalled ==
    /\ sent = {}
    /\ pc = "validate"
    /\ exc = NoExc
    /\ temp_file = None
    /\ fs0 = fs
    /\ conns = 0
    /\ aborted = FALSE
    /\ tables = <<>>
    /\ tpos = 0
    /\ stats = NewStats
    /\ result = NewResult
    /\ issued = {}
    /\ faults = {}
    /\ epc = "idle"
    /\ epos = 0
    /\ estimates = <<>>

\* The calls with every filter mapping, exclusion list and copy format, and
\* a target schema that is an identifier.
BackupInit ==
    /\ filters \in FilterChoices
    /\ schema_name \in {NoSchema, "tgt"}
    /\ source_schema \in Schemas
    /\ excluded_tables \in ExcludedChoices
    /\ clean_output \in BOOLEAN
    /\ \E format \in CopyFormats :
            /\ copy_delimiter = format[1]
            /\ copy_null_string = format[2]
    /\ fs \in FileSystems
    /\ metadata = NoMetadata
    /\ writers = FALSE
    /\ BackupCalled

\* The calls without filters and with the default copy format, with every
\* target schema name and metadata argument, with and without other sessions
\* writing to the tables.
BackupInitArguments ==
    /\ filters = NoFilters
    /\ schema_name \in {NoSchema} \cup TargetNames
    /\ source_schema = "public"
    /\ excluded_tables = {"C"}
    /\ clean_output \in BOOLEAN
    /\ copy_delimiter = CopyDelimiter
    /\ copy_null_string = CopyNullString
    /\ fs \in FileSystems
    /\ metadata \in MetadataChoices
    /\ writers \in BOOLEAN
    /\ BackupCalled

RECURSIVE ValidateFrom(_, _, _, _)
\* _validate_filters from the filter at position pos on, once connected: the
\* error it raises (or none), whether it closed its connection, and the
\* tables whose zero-row query it executed.
ValidateFrom(fmap, pos, abortedTx, results) ==
    LET order == FilterTables(fmap) IN
    IF pos > Len(order)
    THEN [error |-> IF FailedTables(results) # {}
                    THEN [kind |-> "FilterValidationError",
                          message |-> "Filter validation failed"]
                    ELSE NoExc,
          closed |-> TRUE,
          executed |-> DOMAIN results]
    ELSE LET t == order[pos]
             r == ResolveFilterQuery(t, fmap[t])
         IN  IF r.raised
             THEN [error |-> [kind |-> "FilterValidationError",
                              message |-> "Invalid filter for table"],
                   closed |-> FALSE,
                   executed |-> DOMAIN results]
             ELSE ValidateFrom(fmap, pos + 1, abortedTx \/ Rejected(r.q),
                     [u \in DOMAIN results \cup {t} |->
                         IF u = t THEN FilterErrors(r.q, abortedTx) ELSE results[u]])

\* raise: control passes to the except clause of backup()
Raise(kind, message, fault) ==
    /\ pc' = "except"
    /\ exc' = [kind |-> kind, message |-> message]
    /\ faults' = faults \cup {fault}

\* The file _write_backup writes to, and a write to it.
Outfile == IF clean_output THEN fs.temp ELSE fs.dest
WriteOut_ToDestination(text) == [fs EXCEPT !.dest = text]
WriteOut(text) ==
    IF clean_output THEN [fs EXCEPT !.temp = @ \o text]
    ELSE [fs EXCEPT !.dest = @ \o text]

\* if filters: self._validate_filters(filters)
BackupValidate ==
    /\ pc = "validate"
    /\ IF ~HasFilters(filters)
       THEN /\ pc' = "connect"
            /\ UNCHANGED <<exc, faults, conns, issued, sent>>
       ELSE \E ok \in BOOLEAN :
              IF ~ok
              THEN /\ Raise("DatabaseConnectionError", "Failed to connect to database",
                            <<"connect", "validate">>)
                   /\ UNCHANGED <<conns, issued, sent>>
              ELSE LET v == ValidateFrom(filters, 1, FALSE, <<>>) IN
                   /\ issued' = issued \cup {<<"columns", t, "validate">> : t \in v.executed}
                   /\ sent' = sent \cup
                         {<<"validate", t,
                            GetColumnStructure(ResolveFilterQuery(t, filters[t]).q)>> :
                              t \in v.executed}
                   /\ conns' = IF v.closed THEN conns ELSE conns + 1
                   /\ IF v.error = NoExc
                      THEN pc' = "connect" /\ UNCHANGED <<exc, faults>>
                      ELSE pc' = "except" /\ exc' = v.error /\ UNCHANGED faults
    /\ UNCHANGED <<config, metadata, writers, filters, schema_name, source_schema, excluded_tables,
                   clean_output,
                   temp_file, fs, fs0, aborted, tables, tpos, stats, result,
                   epc, epos, estimates>>
    /\ UNCHANGED <<cvars, vvars, fvars, wvars>>

\* conn = self._connect()
BackupConnect_DirectoryFirst ==
    /\ pc = "connect"
    /\ fs' = [fs EXCEPT !.dir = TRUE]
    /\ \E ok \in BOOLEAN :
          IF ok
          THEN /\ conns' = conns + 1
               /\ pc' = "makedirs"
               /\ UNCHANGED <<exc, faults>>
          ELSE /\ Raise("DatabaseConnectionError", "Failed to connect to database",
                        <<"connect", "backup">>)
               /\ UNCHANGED conns
    /\ UNCHANGED <<config, metadata, writers, sent, filters, schema_name, source_schema, excluded_tables,
                   clean_output,
                   temp_file, fs0, aborted, tables, tpos, stats, result, issued,
                   epc, epos, estimates>>
    /\ UNCHANGED <<cvars, vvars, fvars, wvars>>
BackupConnect ==
    /\ pc = "connect"
    /\ \E ok \in BOOLEAN :
          IF ok
          THEN /\ conns' = conns + 1
               /\ pc' = "makedirs"
               /\ UNCHANGED <<exc, faults>>
          ELSE /\ Raise("DatabaseConnectionError", "Failed to connect to database",
                        <<"connect", "backup">>)
               /\ UNCHANGED conns
    /\ UNCHANGED <<config, metadata, writers, sent, filters, schema_name, source_schema, excluded_tables,
                   clean_output,
                   temp_file, fs, fs0, aborted, tables, tpos, stats, result, issued,
                   epc, epos, estimates>>
    /\ UNCHANGED <<cvars, vvars, fvars, wvars>>

\* os.makedirs(os.path.dirname(output_path) or '.', exist_ok=True)
BackupMakedirs ==
    /\ pc = "makedirs"
    /\ \E ok \in BOOLEAN :
          IF ok
          THEN /\ fs' = [fs EXCEPT !.dir = TRUE]
               /\ pc' = IF clean_output THEN "mkstemp" ELSE "open"
               /\ UNCHANGED <<exc, faults>>
          ELSE /\ Raise("OSError", "cannot create directory", <<"makedirs", "backup">>)
               /\ UNCHANGED fs
    /\ UNCHANGED <<config, metadata, writers, sent, filters, schema_name, source_schema, excluded_tables,
                   clean_output,
                   temp_file, fs0, conns, aborted, tables, tpos, stats, result, issued,
                   epc, epos, estimates>>
    /\ UNCHANGED <<cvars, vvars, fvars, wvars>>

\* temp_fd, temp_file = tempfile.mkstemp(...); os.close(temp_fd)
BackupMkstemp ==
    /\ pc = "mkstemp"
    /\ \E ok \in BOOLEAN :
          IF ok
          THEN /\ fs' = [fs EXCEPT !.temp = <<>>]
               /\ temp_file' = TempPath
               /\ pc' = "open"
               /\ UNCHANGED <<exc, faults>>
          ELSE /\ Raise("OSError", "cannot create temporary file", <<"mkstemp", "backup">>)
               /\ UNCHANGED <<fs, temp_file>>
    /\ UNCHANGED <<config, metadata, writers, sent, filters, schema_name, source_schema, excluded_tables,
                   clean_output,
                   fs0, conns, aborted, tables, tpos, stats, result, issued,
                   epc, epos, estimates>>
    /\ UNCHANGED <<cvars, vvars, fvars, wvars>>

\* open(temp_file, 'w') or open(output_path, 'w'): the file is created or
\* truncated.
BackupOpen ==
    /\ pc = "open"
    /\ \E ok \in BOOLEAN :
          IF ok
          THEN /\ fs' = IF clean_output THEN [fs EXCEPT !.temp = <<>>]
                        ELSE [fs EXCEPT !.dest = <<>>]
               /\ stats' = NewStats
               /\ pc' = "write_preamble"
               /\ UNCHANGED <<exc, faults>>
          ELSE /\ Raise("OSError", "cannot open file", <<"open", "backup">>)
               /\ UNCHANGED <<fs, stats>>
    /\ UNCHANGED <<config, metadata, writers, sent, filters, schema_name, source_schema, excluded_tables,
                   clean_output,
                   temp_file, fs0, conns, aborted, tables, tpos, result, issued,
                   epc, epos, estimates>>
    /\ UNCHANGED <<cvars, vvars, fvars, wvars>>

\* _write_header; if schema_name: _write_schema_setup; _write_performance_settings
BackupWritePreamble ==
    /\ pc = "write_preamble"
    /\ \E ok \in BOOLEAN :
          IF ok
          THEN /\ fs' = WriteOut(Preamble(schema_name, filters))
               /\ pc' = "get_tables"
               /\ UNCHANGED <<exc, faults>>
          ELSE /\ Raise("OSError", "write failed", <<"write", "preamble">>)
               /\ UNCHANGED fs
    /\ UNCHANGED <<config, metadata, writers, sent, filters, schema_name, source_schema, excluded_tables,
                   clean_output,
                   temp_file, fs0, conns, aborted, tables, tpos, stats, result, issued,
                   epc, epos, estimates>>
    /\ UNCHANGED <<cvars, vvars, fvars, wvars>>

\* tables = self._get_tables(cursor, source_schema), then the banner
BackupGetTables ==
    /\ pc = "get_tables"
    /\ issued' = issued \cup {<<"catalog", source_schema, "write">>}
    /\ \E ok \in BOOLEAN :
          IF ok
          THEN /\ tables' = Catalog(source_schema)
               /\ tpos' = 1
               /\ fs' = WriteOut(TablesBanner)
               /\ pc' = "loop"
               /\ UNCHANGED <<exc, faults, aborted>>
          ELSE /\ Raise("DatabaseError", ExecuteError(<<"catalog">>, FALSE),
                        <<"catalog", "backup">>)
               /\ aborted' = TRUE
               /\ UNCHANGED <<tables, tpos, fs>>
    /\ UNCHANGED <<config, metadata, writers, sent, filters, schema_name, source_schema, excluded_tables,
                   clean_output,
                   temp_file, fs0, conns, stats, result, epc, epos, estimates>>
    /\ UNCHANGED <<cvars, vvars, fvars, wvars>>

\* The ways one call of _backup_table can go: it returns, or one of its
\* statements fails on the server (the COPY before its first row, "copy", or
\* after rows were streamed, "copy_rows"), or a write of its data section
\* fails and so does the write of the error comment in the except clause of
\* the loop.
TableFaults == {"none", "columns", "count", "copy", "copy_rows", "write_escapes"}

\* The failures that are errors of the server: they abort the transaction.
ServerFaults == {"columns", "count", "copy", "copy_rows"}

\* Where _backup_table stops for the table t: with the transaction aborted
\* its first statement fails, whatever else would have happened.
FailsAt(f, abortedTx) == IF abortedTx THEN "columns" ELSE f

\* The statements _backup_table sends before it returns or raises.
TableStatements(t, q, at, n) ==
    {<<"columns", t, "write">>}
        \cup (IF at # "columns" THEN {<<"count", t, "write">>} ELSE {})
        \cup (IF at \in {"none", "copy", "copy_rows"} /\ n > 0
              THEN {<<"copy", t, "write">>} ELSE {})

\* The rows the COPY statement streams, the count query having returned n:
\* both statements read the table as it is when they run (the connection is
\* in its default isolation level and each statement takes its own
\* snapshot), so with other sessions writing the COPY finds a row less, the
\* same rows, or a row more.
StreamedChoices(n) == IF writers THEN {n - 1, n, n + 1} ELSE {n}

\* The text _backup_table writes after the structure, up to its return or to
\* the statement that fails: n is row_count, streamed the rows copy_expert
\* passes to the wrapper.  No terminator is written after a COPY that
\* failed: copy_expert raises and the rest of _backup_table is skipped.
DataSection_Nothing(t, at, n, streamed, column_names) == <<>>
DataSection(t, at, n, streamed, column_names) ==
    CASE at \in {"columns", "count", "write_escapes"} -> <<>>
      [] at = "copy" -> DataHeader(t, n, column_names)
      [] at = "copy_rows" -> DataHeader(t, n, column_names) \o DataRows(t, 1)
      [] OTHER -> IF n > 0
                  THEN DataHeader(t, n, column_names) \o DataRows(t, streamed)
                           \o Terminator
                  ELSE NoRowsBlock(t)

\* The statements of TableStatements as they are sent.
TableSent(t, q, at, n) ==
    {<<"write", t, GetColumnStructure(q)>>}
        \cup (IF at # "columns" THEN {<<"write", t, GetRowCount(q)>>} ELSE {})
        \cup (IF at \in {"none", "copy", "copy_rows"} /\ n > 0
              THEN {<<"write", t, BuildCopyTo(q, copy_delimiter, copy_null_string)>>}
              ELSE {})

\* table_name in self.backup_config.excluded_tables
Excluded_Never(t, excluded) == FALSE
Excluded(t, excluded) == t \in excluded

\* if table_name in self.backup_config.excluded_tables: continue
BackupSkipExcluded ==
    /\ pc = "loop"
    /\ tpos <= Len(tables)
    /\ Excluded(tables[tpos], excluded_tables)
    /\ tpos' = tpos + 1
    /\ UNCHANGED <<config, metadata, writers, sent, filters, schema_name, source_schema, excluded_tables,
                   clean_output,
                   pc, exc, temp_file, fs, fs0, conns, aborted, tables, stats, result,
                   issued, faults, epc, epos, estimates>>
    /\ UNCHANGED <<cvars, vvars, fvars, wvars>>

\* One iteration of the loop for a table that is not excluded:
\* _backup_table, then the statistics or the except clause of the loop.
BackupTable ==
    /\ pc = "loop"
    /\ tpos <= Len(tables)
    /\ ~Excluded(tables[tpos], excluded_tables)
    /\ \E dumped \in BOOLEAN, f \in TableFaults, d \in {-1, 0, 1} :
          LET t == tables[tpos]
              q == BuildQueryForTable(t, filters, source_schema).q
              n == Selected(q)
              streamed == n + d
              at == FailsAt(f, aborted)
              structure == IF dumped THEN StructureBlock(source_schema, t) ELSE <<>>
              message == IF at = "write_escapes" THEN "write failed"
                         ELSE ExecuteError(q, aborted)
          IN  /\ aborted => f = "none"
              /\ f \in {"copy", "copy_rows"} => n > 0
              /\ streamed \in StreamedChoices(n)
              /\ (n = 0 \/ at # "none") => d = 0
              /\ issued' = issued \cup {<<"pg_dump", t, "write">>}
                               \cup TableStatements(t, q, at, n)
              /\ sent' = sent \cup TableSent(t, q, at, n)
              /\ aborted' = (aborted \/ at \in ServerFaults)
              /\ IF at = "none"
                 THEN /\ fs' = WriteOut(structure \o DataSection(t, at, n, streamed, ColumnNames(q)))
                      /\ stats' = [tables_count |-> stats.tables_count + 1,
                                   total_rows |-> stats.total_rows + n,
                                   tables |-> [u \in DOMAIN stats.tables \cup {t} |->
                                                 IF u = t THEN [rows |-> n]
                                                 ELSE stats.tables[u]]]
                      /\ tpos' = tpos + 1
                      /\ faults' = faults \cup (IF dumped THEN {} ELSE {<<"pg_dump", t>>})
                      /\ UNCHANGED <<pc, exc>>
                 ELSE IF at = "write_escapes"
                 THEN /\ fs' = WriteOut(structure)
                      /\ pc' = "except"
                      /\ exc' = [kind |-> "OSError", message |-> message]
                      /\ faults' = faults \cup {<<f, t>>}
                                       \cup (IF dumped THEN {} ELSE {<<"pg_dump", t>>})
                      /\ UNCHANGED <<stats, tpos>>
                 ELSE /\ fs' = WriteOut(structure \o DataSection(t, at, n, streamed, ColumnNames(q))
                                            \o ErrorBlock(t, message))
                      /\ tpos' = tpos + 1
                      /\ faults' = faults \cup (IF f # "none" THEN {<<f, t>>} ELSE {})
                                       \cup (IF dumped THEN {} ELSE {<<"pg_dump", t>>})
                      /\ UNCHANGED <<pc, exc, stats>>
    /\ UNCHANGED <<config, metadata, writers, filters, schema_name, source_schema, excluded_tables,
                   clean_output,
                   temp_file, fs0, conns, tables, result, epc, epos, estimates>>
    /\ UNCHANGED <<cvars, vvars, fvars, wvars>>

\* The loop is over: self._write_footer(outfile); return stats; the file is
\* closed.
BackupWriteFooter ==
    /\ pc = "loop"
    /\ tpos > Len(tables)
    /\ \E ok \in BOOLEAN :
          IF ok
          THEN /\ fs' = WriteOut(FooterBlock)
               /\ pc' = "close"
               /\ UNCHANGED <<exc, faults>>
          ELSE /\ Raise("OSError", "write failed", <<"write", "footer">>)
               /\ UNCHANGED fs
    /\ UNCHANGED <<config, metadata, writers, sent, filters, schema_name, source_schema, excluded_tables,
                   clean_output,
                   temp_file, fs0, conns, aborted, tables, tpos, stats, result, issued,
                   epc, epos, estimates>>
    /\ UNCHANGED <<cvars, vvars, fvars, wvars>>

\* conn.close()
BackupCloseConn ==
    /\ pc = "close"
    /\ \E ok \in BOOLEAN :
          IF ok
          THEN /\ conns' = conns - 1
               /\ pc' = IF clean_output THEN "clean" ELSE "finalize"
               /\ UNCHANGED <<exc, faults>>
          ELSE /\ Raise("InterfaceError", "close failed", <<"close", "backup">>)
               /\ UNCHANGED conns
    /\ UNCHANGED <<config, metadata, writers, sent, filters, schema_name, source_schema, excluded_tables,
                   clean_output,
                   temp_file, fs, fs0, aborted, tables, tpos, stats, result, issued,
                   epc, epos, estimates>>
    /\ UNCHANGED <<cvars, vvars, fvars, wvars>>

\* self._clean_backup_file(temp_file, output_path, schema_name): it returns,
\* or reading the temp file fails, or writing the destination fails after
\* open(output_file, 'w') has truncated it.
BackupClean ==
    /\ pc = "clean"
    /\ \E f \in {"none", "read", "write"} :
          CASE f = "none" ->
                 /\ fs' = [fs EXCEPT !.dest = CleanedFile(fs.temp, schema_name)]
                 /\ pc' = "remove_temp"
                 /\ UNCHANGED <<exc, faults>>
            [] f = "read" ->
                 /\ Raise("BackupCreationError", "Failed to clean backup file",
                          <<"clean", "read">>)
                 /\ UNCHANGED fs
            [] OTHER ->
                 /\ Raise("BackupCreationError", "Failed to clean backup file",
                          <<"clean", "write">>)
                 /\ fs' = [fs EXCEPT !.dest = <<>>]
    /\ UNCHANGED <<config, metadata, writers, sent, filters, schema_name, source_schema, excluded_tables,
                   clean_output,
                   temp_file, fs0, conns, aborted, tables, tpos, stats, result, issued,
                   epc, epos, estimates>>
    /\ UNCHANGED <<cvars, vvars, fvars, wvars>>

\* if os.path.exists(temp_file): os.remove(temp_file)
BackupRemoveTemp ==
    /\ pc = "remove_temp"
    /\ IF fs.temp = NoFile
       THEN pc' = "finalize" /\ UNCHANGED <<fs, exc, faults>>
       ELSE \E ok \in BOOLEAN :
              IF ok
              THEN /\ fs' = [fs EXCEPT !.temp = NoFile]
                   /\ pc' = "finalize"
                   /\ UNCHANGED <<exc, faults>>
              ELSE /\ Raise("OSError", "cannot remove file", <<"remove", "backup">>)
                   /\ UNCHANGED fs
    /\ UNCHANGED <<config, metadata, writers, sent, filters, schema_name, source_schema, excluded_tables,
                   clean_output,
                   temp_file, fs0, conns, aborted, tables, tpos, stats, result, issued,
                   epc, epos, estimates>>
    /\ UNCHANGED <<cvars, vvars, fvars, wvars>>

\* mapping[key] = value on the items of a mapping.
SetItem(items, key, value) == {x \in items : x[1] # key} \cup {<<key, value>>}

\* "Populate result": success and file_path are assigned before
\* os.path.getsize(output_path), which can raise; result.metadata is bound
\* after it, and the item 'cleaned' is set in the object it is bound to.
BackupFinalize ==
    /\ pc = "finalize"
    /\ \E ok \in BOOLEAN :
          IF ok
          THEN LET bound == MetadataOr(metadata)
                   items == IF clean_output
                            THEN SetItem(bound.items, "cleaned", "True")
                            ELSE bound.items
               IN  /\ result' = [result EXCEPT !.success = TRUE,
                                                !.file_path = OutputPath,
                                                !.tables_count = stats.tables_count,
                                                !.total_rows = stats.total_rows,
                                                !.metadata = [bound EXCEPT !.items = items],
                                                !.stats = stats,
                                                !.cleaned = clean_output]
                   /\ metadata' = IF bound.object = "argument"
                                  THEN [metadata EXCEPT !.items = items]
                                  ELSE metadata
                   /\ pc' = "returned"
                   /\ UNCHANGED <<exc, faults>>
          ELSE /\ result' = [result EXCEPT !.success = TRUE, !.file_path = OutputPath]
               /\ Raise("OSError", "cannot stat file", <<"getsize", "backup">>)
               /\ UNCHANGED metadata
    /\ UNCHANGED <<config, writers, sent, filters, schema_name, source_schema, excluded_tables,
                   clean_output,
                   temp_file, fs, fs0, conns, aborted, tables, tpos, stats, issued,
                   epc, epos, estimates>>
    /\ UNCHANGED <<cvars, vvars, fvars, wvars>>

\* result.success = False; result.error_message = str(e)
HandlerResult_KeepsSuccess(res, e) == [res EXCEPT !.error_message = e.message]
HandlerResult(res, e) == [res EXCEPT !.success = FALSE, !.error_message = e.message]

\* if temp_file and os.path.exists(temp_file)
HandlerCleansUp_Never(path, files) == FALSE
HandlerCleansUp(path, files) == path # None /\ files.temp # NoFile

\* except Exception as e: the result is marked failed, the temp file is
\* removed if there is one (a failure to remove it is logged), return result
BackupExcept ==
    /\ pc = "except"
    /\ result' = HandlerResult(result, exc)
    /\ IF HandlerCleansUp(temp_file, fs)
       THEN \E ok \in BOOLEAN :
              IF ok
              THEN fs' = [fs EXCEPT !.temp = NoFile] /\ UNCHANGED faults
              ELSE fs' = fs /\ faults' = faults \cup {<<"remove", "handler">>}
       ELSE UNCHANGED <<fs, faults>>
    /\ pc' = "returned"
    /\ UNCHANGED <<config, metadata, writers, sent, filters, schema_name, source_schema, excluded_tables,
                   clean_output,
                   exc, temp_file, fs0, conns, aborted, tables, tpos, stats, issued,
                   epc, epos, estimates>>
    /\ UNCHANGED <<cvars, vvars, fvars, wvars>>

\* estimate_size(filters), called after a backup in which nothing failed:
\* conn = self._connect(); tables = self._get_tables(cursor)
EstimateStart ==
    /\ pc = "returned"
    /\ faults = {}
    /\ epc = "idle"
    /\ \E f \in {"none", "connect", "catalog"} :
          CASE f = "none" ->
                 /\ conns' = conns + 1
                 /\ issued' = issued \cup {<<"catalog", "public", "estimate">>}
                 /\ epos' = 1
                 /\ epc' = "loop"
            [] f = "connect" ->
                 /\ epc' = "raised"
                 /\ UNCHANGED <<conns, issued, epos>>
            [] OTHER ->
                 /\ conns' = conns + 1
                 /\ issued' = issued \cup {<<"catalog", "public", "estimate">>}
                 /\ epc' = "raised"
                 /\ UNCHANGED epos
    /\ UNCHANGED <<config, metadata, writers, sent, filters, schema_name, source_schema, excluded_tables,
                   clean_output,
                   pc, exc, temp_file, fs, fs0, aborted, tables, tpos, stats, result,
                   faults, estimates>>
    /\ UNCHANGED <<cvars, vvars, fvars, wvars>>

\* One iteration of the loop of estimate_size: the table is skipped, or its
\* count query is built with the default schema and executed; an error
\* leaves estimate_size.
EstimateTable ==
    /\ epc = "loop"
    /\ epos <= Len(Catalog("public"))
    /\ LET t == Catalog("public")[epos]
           r == BuildQueryForTable(t, filters, "public")
       IN  IF Excluded(t, excluded_tables)
           THEN /\ epos' = epos + 1
                /\ UNCHANGED <<epc, estimates, issued, sent>>
           ELSE IF r.raised
           THEN /\ epc' = "raised"
                /\ UNCHANGED <<epos, estimates, issued, sent>>
           ELSE /\ issued' = issued \cup {<<"count", t, "estimate">>}
                /\ sent' = sent \cup {<<"estimate", t, GetRowCount(r.q)>>}
                /\ \E ok \in BOOLEAN :
                      IF ok /\ ~Rejected(r.q)
                      THEN /\ estimates' = [u \in DOMAIN estimates \cup {t} |->
                                              IF u = t THEN Selected(r.q)
                                              ELSE estimates[u]]
                           /\ epos' = epos + 1
                           /\ UNCHANGED epc
                      ELSE /\ epc' = "raised"
                           /\ UNCHANGED <<epos, estimates>>
    /\ UNCHANGED <<config, metadata, writers, filters, schema_name, source_schema, excluded_tables,
                   clean_output,
                   pc, exc, temp_file, fs, fs0, conns, aborted, tables, tpos, stats,
                   result, faults>>
    /\ UNCHANGED <<cvars, vvars, fvars, wvars>>

\* conn.close(); return estimates
EstimateReturn ==
    /\ epc = "loop"
    /\ epos > Len(Catalog("public"))
    /\ conns' = conns - 1
    /\ epc' = "returned"
    /\ UNCHANGED <<config, metadata, writers, sent, filters, schema_name, source_schema, excluded_tables,
                   clean_output,
                   pc, exc, temp_file, fs, fs0, aborted, tables, tpos, stats, result,
                   issued, faults, epos, estimates>>
    /\ UNCHANGED <<cvars, vvars, fvars, wvars>>

BackupNext ==
    \/ BackupValidate
    \/ BackupConnect
    \/ BackupMakedirs
    \/ BackupMkstemp
    \/ BackupOpen
    \/ BackupWritePreamble
    \/ BackupGetTables
    \/ BackupSkipExcluded
    \/ BackupTable
    \/ BackupWriteFooter
    \/ BackupCloseConn
    \/ BackupClean
    \/ BackupRemoveTemp
    \/ BackupFinalize
    \/ BackupExcept
    \/ EstimateStart
    \/ EstimateTable
    \/ EstimateReturn

(***************************************************************************)
(* CopyToStreamWrapper (core/stream_wrapper.py).  A str is a sequence of   *)
(* code points, a bytes object a sequence of numbers below 256; a chunk is *)
(* one or the other.                                                       *)
(***************************************************************************)
\* The texts copy_expert hands over: empty, one character of one, two and
\* three bytes in UTF-8 (A, e acute, the euro sign), and two characters.
Texts == { <<>>, <<65>>, <<233>>, <<8364>>, <<65, 8364>> }

\* str.encode('utf-8') of one code point below 65536.
EncodeChar(cp) ==
    IF cp < 128 THEN <<cp>>
    ELSE IF cp < 2048 THEN <<192 + (cp \div 64), 128 + (cp % 64)>>
    ELSE <<224 + (cp \div 4096), 128 + ((cp \div 64) % 64), 128 + (cp % 64)>>

RECURSIVE Encode(_)
\* str.encode('utf-8')
Encode(text) ==
    IF text = <<>> THEN <<>> ELSE EncodeChar(Head(text)) \o Encode(Tail(text))

IsContinuation(b) == b >= 128 /\ b < 192

\* The number of bytes the sequence that starts with byte b has; 0 when b
\* cannot start one.
SequenceLength(b) ==
    IF b < 128 THEN 1
    ELSE IF b >= 194 /\ b < 224 THEN 2
    ELSE IF b >= 224 /\ b < 240 THEN 3
    ELSE 0

RECURSIVE Decodable(_)
\* bytes.decode('utf-8') does not raise UnicodeDecodeError.
Decodable(bytes) ==
    \/ bytes = <<>>
    \/ LET n == SequenceLength(Head(bytes)) IN
         /\ n > 0
         /\ n <= Len(bytes)
         /\ \A k \in 2..n : IsContinuation(bytes[k])
         /\ Decodable(SubSeq(bytes, n + 1, Len(bytes)))

RECURSIVE Decode(_)
\* bytes.decode('utf-8') of bytes that are decodable.
Decode(bytes) ==
    IF bytes = <<>> THEN <<>>
    ELSE LET n == SequenceLength(Head(bytes))
             cp == IF n = 1 THEN bytes[1]
                   ELSE IF n = 2 THEN (bytes[1] - 192) * 64 + (bytes[2] - 128)
                   ELSE (bytes[1] - 224) * 4096 + (bytes[2] - 128) * 64 + (bytes[3] - 128)
         IN  <<cp>> \o Decode(SubSeq(bytes, n + 1, Len(bytes)))

\* The chunks write() is called with: each text as a str and as bytes, and
\* bytes that are not UTF-8 (a Latin-1 e acute, a lone continuation byte).
Chunks ==
    {[type |-> "str", data |-> text] : text \in Texts}
        \cup {[type |-> "bytes", data |-> Encode(text)] : text \in Texts}
        \cup {[type |-> "bytes", data |-> <<233>>], [type |-> "bytes", data |-> <<128>>]}

\* if isinstance(data, bytes): data = data.decode('utf-8')
Raises(chunk) == chunk.type = "bytes" /\ ~Decodable(chunk.data)
AsStr(chunk) == IF chunk.type = "bytes" THEN Decode(chunk.data) ELSE chunk.data

\* A count of characters in place of bytes.
BytesCount_Characters(data) == Len(data)

\* bytes_count = len(data.encode('utf-8')); data is a str at this point.
BytesCount(data) == Len(Encode(data))

\* max(self.chunks_written, 1)
MaxOf(a, b) == IF a >= b THEN a ELSE b

\* self.bytes_written / max(self.chunks_written, 1), as numerator and
\* denominator of the quotient.
AvgChunkSize == <<bytes_written, MaxOf(chunks_written, 1)>>

NoStats == [read |-> FALSE]

\* The record of one call of write(): its argument, how it ended, what it
\* returned and the counters before and after it.
Call(chunk, outcome, value) ==
    [chunk |-> chunk, outcome |-> outcome, returned |-> value,
     before |-> <<bytes_written, chunks_written>>,
     after |-> <<bytes_written', chunks_written'>>]

\* __init__
StreamInit ==
    /\ bytes_written = 0
    /\ chunks_written = 0
    /\ sink = <<>>
    /\ calls = <<>>
    /\ stats_read = NoStats

\* write(data) returns.
StreamWrite ==
    /\ Len(calls) < MaxWrites
    /\ \E chunk \in Chunks :
         /\ ~Raises(chunk)
         /\ LET data == AsStr(chunk)
                bytes_count == BytesCount(data)
            IN  /\ sink' = Append(sink, [data |-> data, raised |-> FALSE])
                /\ bytes_written' = bytes_written + bytes_count
                /\ chunks_written' = chunks_written + 1
                /\ calls' = Append(calls, Call(chunk, "returned", bytes_count))
    /\ UNCHANGED stats_read
    /\ UNCHANGED <<cvars, vvars, bvars, fvars>>

\* write(data) with bytes that are not UTF-8: decode raises.
StreamWriteDecodeFails ==
    /\ Len(calls) < MaxWrites
    /\ \E chunk \in Chunks :
         /\ Raises(chunk)
         /\ UNCHANGED <<bytes_written, chunks_written, sink>>
         /\ calls' = Append(calls, Call(chunk, "UnicodeDecodeError", 0))
    /\ UNCHANGED stats_read
    /\ UNCHANGED <<cvars, vvars, bvars, fvars>>

\* write(data) whose self.outfile.write(data) raises (a full disk, a closed
\* file): the statements after it are not reached.
StreamWriteSinkFails ==
    /\ Len(calls) < MaxWrites
    /\ \E chunk \in Chunks :
         /\ ~Raises(chunk)
         /\ sink' = Append(sink, [data |-> AsStr(chunk), raised |-> TRUE])
         /\ UNCHANGED <<bytes_written, chunks_written>>
         /\ calls' = Append(calls, Call(chunk, "OSError", 0))
    /\ UNCHANGED stats_read
    /\ UNCHANGED <<cvars, vvars, bvars, fvars>>

\* A read of the stats property.
StreamStats ==
    /\ stats_read' = [read |-> TRUE, at |-> Len(calls),
                      bytes_written |-> bytes_written,
                      chunks_written |-> chunks_written,
                      avg_chunk_size |-> AvgChunkSize]
    /\ UNCHANGED <<bytes_written, chunks_written, sink, calls>>
    /\ UNCHANGED <<cvars, vvars, bvars, fvars>>

StreamNext ==
    \/ StreamWrite
    \/ StreamWriteDecodeFails
    \/ StreamWriteSinkFails
    \/ StreamStats

(***************************************************************************)
(* The specifications.  Each runs one of the machines; the variables of    *)
(* the others stay at rest.                                                *)
(***************************************************************************)
StreamIdle ==
    /\ bytes_written = 0
    /\ chunks_written = 0
    /\ sink = <<>>
    /\ calls = <<>>
    /\ stats_read = NoStats

CleanIdle ==
    /\ content = EmptyText
    /\ remove_schema_prefix = TRUE
    /\ cpc = "idle"
    /\ lines = <<>>
    /\ lineNo = 0
    /\ in_copy_block = FALSE
    /\ cleaned_lines = <<>>
    /\ origin = <<>>
    /\ returned = NoText
    /\ pass = 0
    /\ first_input = EmptyText
    /\ first_returned = NoText

ValidateIdle ==
    /\ vfilters = NoFilters
    /\ vpc = "idle"
    /\ vconn = 0
    /\ vaborted = FALSE
    /\ vpos = 0
    /\ validation_results = <<>>
    /\ verror = NoError

FilterIdle ==
    /\ sub_filters = <<>>
    /\ operator = "AND"
    /\ table_name = <<"orders">>
    /\ params = [schema |-> Absent]
    /\ fpc = "idle"
    /\ fpos = 0
    /\ conditions = <<>>
    /\ statement = <<>>

BackupIdle ==
    /\ filters = NoFilters
    /\ metadata = NoMetadata
    /\ writers = FALSE
    /\ schema_name = NoSchema
    /\ source_schema = "public"
    /\ excluded_tables = {}
    /\ clean_output = TRUE
    /\ copy_delimiter = CopyDelimiter
    /\ copy_null_string = CopyNullString
    /\ sent = {}
    /\ pc = "idle"
    /\ exc = NoExc
    /\ temp_file = None
    /\ fs = [dir |-> FALSE, temp |-> NoFile, dest |-> NoFile]
    /\ fs0 = fs
    /\ conns = 0
    /\ aborted = FALSE
    /\ tables = <<>>
    /\ tpos = 0
    /\ stats = NewStats
    /\ result = NewResult
    /\ issued = {}
    /\ faults = {}
    /\ epc = "idle"
    /\ epos = 0
    /\ estimates = <<>>

Init == BackupInit /\ CleanIdle /\ ValidateIdle /\ FilterIdle /\ StreamIdle
Spec == Init /\ [][BackupNext]_vars

InitClean == CleanInit /\ ValidateIdle /\ BackupIdle /\ FilterIdle /\ StreamIdle
SpecClean == InitClean /\ [][CleanNext]_vars

InitValidate == ValidateInit /\ CleanIdle /\ BackupIdle /\ FilterIdle /\ StreamIdle
SpecValidate == InitValidate /\ [][ValidateNext]_vars

InitFilter == FilterInit /\ CleanIdle /\ ValidateIdle /\ BackupIdle /\ StreamIdle
SpecFilter == InitFilter /\ [][FilterNext]_vars

InitArguments ==
    BackupInitArguments /\ CleanIdle /\ ValidateIdle /\ FilterIdle /\ StreamIdle
SpecArguments == InitArguments /\ [][BackupNext]_vars

InitStream == StreamInit /\ CleanIdle /\ ValidateIdle /\ BackupIdle /\ FilterIdle
SpecStream == InitStream /\ [][StreamNext]_vars

(***************************************************************************)
(* Properties of the cleaner (under SpecClean).                            *)
(***************************************************************************)
\* Line i of the text lies strictly between a bulk-start line and the next
\* lone backslash-dot line: a bulk-start line stands before it, no terminator
\* stands between the two or at i, and a terminator follows.
InsideBulk(text, i) ==
    /\ \E j \in 1..(i - 1) :
          /\ CopyStart(text[j])
          /\ \A k \in (j + 1)..i : ~CopyEnd(text[k])
    /\ \E e \in (i + 1)..Len(text) : CopyEnd(text[e])

\* C1 - Bulk-block opacity: every line read so far that lies strictly between
\* a bulk-start line and the next terminator line is in the output unchanged,
\* as the line it was read as (origin keeps the output in input order).
C1_BulkOpacity ==
    (pass = 1 /\ cpc \in {"loop", "returned"}) =>
        \A i \in 1..(lineNo - 1) :
            InsideBulk(lines, i) =>
                \E k \in 1..Len(cleaned_lines) :
                    origin[k] = i /\ cleaned_lines[k] = lines[i]

\* Line i of the text is read in the OUTSIDE state: no bulk-start line before
\* it is still waiting for its terminator line.
OutsideAt(text, i) ==
    \A j \in 1..(i - 1) :
        CopyStart(text[j]) => \E k \in (j + 1)..(i - 1) : CopyEnd(text[k])

\* The line is CREATE TABLE public.T R or ALTER TABLE ONLY public.T R; the
\* number of tokens in front of T.
PrefixedAt(line) ==
    IF Len(line) >= 4 /\ SubSeq(line, 1, 3) = <<"CREATE", "TABLE", PUB>> THEN 3
    ELSE IF Len(line) >= 5 /\ SubSeq(line, 1, 4) = <<"ALTER", "TABLE", "ONLY", PUB>> THEN 4
    ELSE 0

\* T R of such a line.
TargetAndRest(line) == SubSeq(line, PrefixedAt(line) + 1, Len(line))

\* The line the claim says it becomes: CREATE TABLE T R or ALTER TABLE T R.
Unprefixed(line) == <<line[1], "TABLE">> \o TargetAndRest(line)

\* R contains a public. prefix.
RestHasPrefix(line) ==
    \E k \in 2..Len(TargetAndRest(line)) : IsPubCI(TargetAndRest(line)[k])

\* C12 - Literal prefix stripping: with prefix removal enabled, every line
\* read in the OUTSIDE state that is CREATE TABLE public.T R or ALTER TABLE
\* ONLY public.T R, for an identifier T and a remainder R without a public.
\* prefix, is in the output as CREATE TABLE T R or ALTER TABLE T R.
C12_LiteralPrefix ==
    (pass = 1 /\ cpc \in {"loop", "returned"} /\ remove_schema_prefix) =>
        \A i \in 1..(lineNo - 1) :
            (OutsideAt(lines, i) /\ PrefixedAt(lines[i]) > 0 /\ ~RestHasPrefix(lines[i])) =>
                \E k \in 1..Len(cleaned_lines) :
                    origin[k] = i /\ cleaned_lines[k] = Unprefixed(lines[i])

\* The line has the literal public. directly in front of an identifier.  (In
\* the lines of the model the literal always stands at a word boundary: after
\* white space, a dot or a quote.)
HasResidualPrefix(line) ==
    \E k \in 1..(Len(line) - 1) : line[k] = PUB /\ IsIdentStart(line[k + 1])

\* C23 - No residual prefix: with prefix removal enabled, no line of the
\* output that was read in the OUTSIDE state has the literal public. directly
\* in front of an identifier.
C23_NoResidualPrefix ==
    (pass = 1 /\ cpc \in {"loop", "returned"} /\ remove_schema_prefix) =>
        \A k \in 1..Len(cleaned_lines) :
            OutsideAt(lines, origin[k]) => ~HasResidualPrefix(cleaned_lines[k])

\* The line is blank, a full-line comment, or a SET search_path statement.
IsDropLine(line) ==
    \/ \A k \in 1..Len(line) : line[k] = INDENT
    \/ line[IF Indented(line) THEN 2 ELSE 1] = "--"
    \/ Len(line) >= 2 /\ line[1] \in {"SET", "set"} /\ line[2] = "search_path"

\* The line begins with COPY followed by white space.
BeginsWithCopy(line) == Len(line) >= 2 /\ line[1] \in {"COPY", "copy"}

\* The line is a backslash and a dot and nothing else.
IsTerminator(line) == Len(line) = 1 /\ line[1] = "\\."

RECURSIVE FlagAfter(_, _)
\* The in-bulk flag after the first n lines of the text, as the claim has it:
\* false at the start, true after a bulk-start line, false after a
\* terminator line, as it was after any other line.
FlagAfter(text, n) ==
    IF n <= 0 THEN FALSE
    ELSE IF BeginsWithCopy(text[n]) THEN TRUE
    ELSE IF IsTerminator(text[n]) THEN FALSE
    ELSE FlagAfter(text, n - 1)

\* A bulk-start line without the public. qualifier of its table.
QualifierStripped(line) ==
    IF Len(line) >= 3 /\ line[2] = PUB
    THEN <<line[1]>> \o SubSeq(line, 3, Len(line))
    ELSE line

\* The lines of the output that line i of the input was emitted as.
EmittedAs(i) == {k \in 1..Len(cleaned_lines) : origin[k] = i}

\* C24 - Cleaner state machine: the in-bulk flag is false at the start, true
\* after every line that begins with COPY and white space, false after every
\* lone backslash-dot line, and as before after any other line; with prefix
\* removal a bulk-start line is in the output once, without the public.
\* qualifier of its table and otherwise as read; a terminator line is in the
\* output once as read; a drop line read after a terminator and before the
\* next bulk-start line is not in the output.
C24_StateMachine ==
    (pass = 1 /\ cpc \in {"loop", "returned"}) =>
        /\ in_copy_block = FlagAfter(lines, lineNo - 1)
        /\ \A i \in 1..(lineNo - 1) :
              /\ (BeginsWithCopy(lines[i]) /\ remove_schema_prefix) =>
                    /\ Cardinality(EmittedAs(i)) = 1
                    /\ \A k \in EmittedAs(i) :
                          cleaned_lines[k] = QualifierStripped(lines[i])
              /\ IsTerminator(lines[i]) =>
                    /\ Cardinality(EmittedAs(i)) = 1
                    /\ \A k \in EmittedAs(i) : cleaned_lines[k] = lines[i]
              /\ (~FlagAfter(lines, i - 1) /\ ~BeginsWithCopy(lines[i])
                     /\ IsDropLine(lines[i])) => EmittedAs(i) = {}

\* Line i is read in the OUTSIDE state and is neither a bulk-start line nor a
\* terminator line.
ReadOutside(i) ==
    /\ ~FlagAfter(lines, i - 1)
    /\ ~BeginsWithCopy(lines[i])
    /\ ~IsTerminator(lines[i])

\* The line holds the public. qualifier, in either letter case (the keyword
\* substitutions ignore case).
HasPublic(line) == \E k \in 1..Len(line) : IsPubCI(line[k])

DropLinesRead ==
    {i \in 1..(lineNo - 1) : OutsideAt(lines, i) /\ IsDropLine(lines[i])}

\* An iteration that reads such a line in the OUTSIDE state leaves the output
\* as it is and stays in the OUTSIDE state.
DropLineStep ==
    (cpc = "loop" /\ lineNo' = lineNo + 1 /\ ~in_copy_block /\ IsDropLine(lines[lineNo])) =>
        /\ cleaned_lines' = cleaned_lines
        /\ in_copy_block' = in_copy_block

\* C13 - Drop-line removal: a line read in the OUTSIDE state that is blank, a
\* full-line comment or a SET search_path statement is not in the output, and
\* reading it removes or changes no other line of the output: the output has
\* exactly that one line less.
C13_DropLines ==
    /\ [](pass = 1 => \A k \in 1..Len(origin) : origin[k] \notin DropLinesRead)
    /\ [][DropLineStep]_vars

\* A search-path statement was read after a line that stays.
C13_Witness ==
    /\ cpc = "loop"
    /\ lineNo = 3
    /\ lines[1] = <<"CREATE", "TABLE", PUB, "t">>
    /\ lines[2] = <<"SET", "search_path">>
    /\ cleaned_lines = << <<"CREATE", "TABLE", "t">> >>

(***************************************************************************)
(* Properties of backup(), of _validate_filters and of estimate_size().    *)
(***************************************************************************)
\* An exception reached the except clause of backup().
Escaped == exc # NoExc

\* Every step of backup() outside the per-table loop has completed.
StepsCompleted ==
    /\ fs.dir
    /\ tables = Catalog(source_schema)
    /\ tpos > Len(tables)
    /\ fs.dest # NoFile
    /\ clean_output => fs.temp = NoFile /\ temp_file # None

\* C2 - backup() never raises: it ends in a returned result; when a failure
\* escaped the per-table loop the result has success = false and an error
\* message, and success = true is returned only when every step outside the
\* loop completed.
C2_NeverRaises ==
    /\ pc = "except" => Escaped
    /\ pc = "returned" =>
          /\ Escaped => result.success = FALSE /\ result.error_message # None
          /\ result.success => ~Escaped /\ StepsCompleted

\* A run in which result finalization failed after success had been set.
C2_Witness ==
    /\ pc = "returned"
    /\ <<"getsize", "backup">> \in faults
    /\ result.success = FALSE
    /\ result.error_message = "cannot stat file"

\* The environment failures of the run are all failures of statements for B.
OnlyBFails ==
    /\ faults # {}
    /\ faults \subseteq {<<"columns", "B">>, <<"count", "B">>, <<"copy", "B">>}

\* The rows a run reads for table t.
RowsRead(t) == Selected(BuildQueryForTable(t, filters, source_schema).q)

\* C3 - Per-table failure isolation: when a statement for B fails during the
\* write loop over A, B, C, the result is success = true with A and C in the
\* statistics under their row counts and B absent.
C3_Isolation ==
    (pc = "returned" /\ ~Escaped /\ tables = TableOrder /\ excluded_tables = {}
        /\ OnlyBFails) =>
        /\ result.success
        /\ DOMAIN result.stats.tables = {"A", "C"}
        /\ \A t \in {"A", "C"} : result.stats.tables[t].rows = RowsRead(t)
        /\ result.tables_count = 2
        /\ result.total_rows = RowsRead("A") + RowsRead("C")

\* C4 - No temp-file leak: with clean_output enabled, once backup() has
\* returned the temporary file of the run is gone, unless the removal in the
\* except clause itself failed.
C4_NoTempLeak ==
    (clean_output /\ pc = "returned" /\ <<"remove", "handler">> \notin faults) =>
        fs.temp = NoFile

\* A run that failed in the cleaning pass, after the temp file was written.
C4_Witness ==
    /\ clean_output
    /\ pc = "returned"
    /\ <<"clean", "write">> \in faults
    /\ temp_file = TempPath
    /\ fs.temp = NoFile

\* The tables of the mapping whose own filter is invalid, in catalog order.
InvalidFilters(fmap) ==
    SelectSeq(TableOrder, LAMBDA t : fmap[t] \in {"badsql", "notfilter"})

\* C5 - Aggregated validation: when some filter is invalid, the call raises
\* one FilterValidationError after every filter was examined, and the error
\* names exactly the tables whose own filter is invalid.
C5_Aggregated ==
    (vpc = "raised" /\ verror.kind = "FilterValidationError") =>
        /\ vpos >= Len(FilterTables(vfilters))
        /\ verror.names = InvalidFilters(vfilters)

\* C6 - Abort before writing: when filter validation fails or the connection
\* cannot be opened, backup() returns success = false and the directory, the
\* temp file and the destination are as they were when it was called.
C6_AbortBeforeWriting ==
    (pc = "returned" /\ exc.kind \in {"FilterValidationError", "DatabaseConnectionError"}) =>
        /\ result.success = FALSE
        /\ fs = fs0
        /\ temp_file = None

\* A run whose filters were rejected, with an earlier file at the destination.
C6_Witness ==
    /\ pc = "returned"
    /\ exc.kind = "FilterValidationError"
    /\ fs0.dest = OldFile
    /\ fs.dest = OldFile

\* C7 - Idempotent re-clean: with prefix removal enabled both times, cleaning
\* the cleaner's own output returns that output again.
C7_Idempotent ==
    (pass = 2 /\ remove_schema_prefix) => returned = first_returned

\* The statements of the write loop and of estimate_size for table t.
LoopStatements(t) ==
    {<<k, t, "write">> : k \in {"pg_dump", "columns", "count", "copy"}}
        \cup {<<"count", t, "estimate">>}

\* The text has a line '-- Data for table: t'.
HasDataHeader(text, t) ==
    text # NoFile /\ \E i \in 1..Len(text) : text[i] = <<"--", "Data for table:", t>>

\* The statistics have no key t, in _write_backup and in the result.
NoStatsKey(t) ==
    /\ t \notin DOMAIN stats.tables
    /\ "tables" \in DOMAIN result.stats => t \notin DOMAIN result.stats.tables

\* C8 - Excluded tables never appear (as the code has it): for every excluded
\* table the write loop and estimate_size send no statement and start no
\* structure dump, no file has a data header for it, and neither the
\* statistics nor the estimates have a key for it; the zero-row query that
\* filter validation executes for a filter given for the table is not covered.
C8_ExcludedInLoop ==
    \A t \in excluded_tables :
        /\ issued \cap LoopStatements(t) = {}
        /\ ~HasDataHeader(fs.temp, t)
        /\ ~HasDataHeader(fs.dest, t)
        /\ NoStatsKey(t)
        /\ t \notin DOMAIN estimates

\* A backup and an estimate that returned, with B excluded and filtered.
C8_Witness ==
    /\ pc = "returned"
    /\ result.success
    /\ epc = "returned"
    /\ excluded_tables = {"B"}
    /\ filters["B"] = "sql"
    /\ <<"columns", "B", "validate">> \in issued
    /\ DOMAIN estimates = {"A", "C"}

\* C8 as stated - no statement at all is sent for an excluded table.
C8_ExcludedNoStatement ==
    \A t \in excluded_tables :
        /\ \A k \in {"pg_dump", "columns", "count", "copy"},
              ph \in {"validate", "write", "estimate"} : <<k, t, ph>> \notin issued
        /\ ~HasDataHeader(fs.temp, t)
        /\ ~HasDataHeader(fs.dest, t)
        /\ NoStatsKey(t)
        /\ t \notin DOMAIN estimates

RECURSIVE SumOver(_, _)
\* The sum of f over the set S.
SumOver(f, S) ==
    IF S = {} THEN 0
    ELSE LET x == CHOOSE y \in S : TRUE IN f[x] + SumOver(f, S \ {x})

\* C9 - Row-count agreement: after a backup and an estimate_size with the
\* same filters and nothing failing, every table that is not excluded has the
\* same number in the estimates and in the statistics of the backup, and
\* total_rows is the sum of the estimates.
C9_RowCountAgreement ==
    (pc = "returned" /\ result.success /\ epc = "returned" /\ faults = {}) =>
        /\ DOMAIN estimates = DOMAIN result.stats.tables
        /\ \A t \in DOMAIN estimates : estimates[t] = result.stats.tables[t].rows
        /\ result.total_rows = SumOver(estimates, DOMAIN estimates)

\* The part of the document a line opens, if it opens one.
NoMark == <<"none">>
Mark(line) ==
    CASE line = <<"--", "PostgreSQL Database Backup">> -> <<"header">>
      [] line = <<"--", "SCHEMA SETUP">> -> <<"schema setup">>
      [] Len(line) >= 2 /\ line[1] = "DROP" /\ line[2] = "SCHEMA" -> <<"drop">>
      [] Len(line) >= 2 /\ line[1] = "CREATE" /\ line[2] = "SCHEMA" -> <<"create">>
      [] Len(line) >= 2 /\ line[1] = "SET" /\ line[2] = "search_path" -> <<"search path">>
      [] line = <<"--", "PERFORMANCE OPTIMIZATIONS">> -> <<"performance">>
      [] line = <<"--", "TABLE STRUCTURES AND DATA">> -> <<"tables">>
      [] Len(line) = 3 /\ line[1] = "--"
            /\ line[2] \in {"Table structure for:", "Data for table:",
                            "ERROR backing up table:"} -> <<"table", line[3]>>
      [] line = <<"--", "FINALIZATION">> -> <<"footer">>
      [] OTHER -> NoMark

\* The parts of the text in the order written; the lines of one table's
\* section count once.
Marks(text) ==
    LET all == [i \in 1..Len(text) |-> Mark(text[i])]
        opens == SelectSeq([i \in 1..Len(text) |-> i],
                     LAMBDA i : /\ all[i] # NoMark
                                /\ \A j \in 1..(i - 1) :
                                      (\A k \in (j + 1)..(i - 1) : all[k] = NoMark)
                                          => all[j] # all[i])
    IN  [k \in 1..Len(opens) |-> all[opens[k]]]

\* The parts of a complete document, for the catalog order tbls.
ExpectedMarks(target, tbls, excluded) ==
    <<<<"header">>>>
        \o (IF target # NoSchema
            THEN << <<"schema setup">>, <<"drop">>, <<"create">>, <<"search path">> >>
            ELSE <<>>)
        \o << <<"performance">>, <<"tables">> >>
        \o [k \in 1..Len(SelectSeq(tbls, LAMBDA t : t \notin excluded)) |->
               <<"table", SelectSeq(tbls, LAMBDA t : t \notin excluded)[k]>>]
        \o << <<"footer">> >>

IsPrefix(a, b) == Len(a) <= Len(b) /\ a = SubSeq(b, 1, Len(a))

\* The file _write_backup is writing, once it has been opened.
Written == IF pc \in {"write_preamble", "get_tables", "loop", "close"} THEN Outfile ELSE <<>>

\* C10 - Fixed document order: at every point of _write_backup the parts
\* written so far are the first parts of header, schema setup (drop, create,
\* search path, when a target schema is given), performance settings, one
\* section per table that is not excluded in catalog order, footer; when
\* _write_backup has returned all of them are written, the footer once.
C10_DocumentOrder ==
    LET expected == ExpectedMarks(schema_name, Catalog(source_schema), excluded_tables) IN
    /\ IsPrefix(Marks(Written), expected)
    /\ pc = "close" => Marks(Written) = expected

\* _write_backup has returned after a loop in which a table failed.
C10_Witness ==
    /\ pc = "close"
    /\ schema_name = "tgt"
    /\ <<"count", "A">> \in faults
    /\ Len(Marks(Written)) = Len(ExpectedMarks(schema_name, tables, excluded_tables))

\* The line is a bulk-import header: COPY <table> (...) FROM stdin ...
IsBulkHeader(line) ==
    /\ Len(line) >= 7
    /\ line[1] = "COPY"
    /\ line[6] = "FROM"
    /\ line[7] = "stdin"

\* The line is a row as the server streams it.
IsStreamedRow(line) == \E t \in Tables : line = DataRows(t, 1)[1]

\* The bulk block opened at line i of the text is rows followed by a lone
\* backslash-dot line.
BulkClosed(text, i) ==
    \E e \in (i + 1)..Len(text) :
        /\ text[e] = <<"\\.">>
        /\ \A k \in (i + 1)..(e - 1) : IsStreamedRow(text[k])

\* The text has the no-rows comment for t and no bulk-import header for t.
NoRowsComment(text, t) ==
    /\ \E i \in 1..(Len(text) - 1) :
          /\ text[i] = <<"--", "Data for table:", t>>
          /\ text[i + 1] = <<"--", "No rows to export (filtered or empty)">>
    /\ \A i \in 1..Len(text) : IsBulkHeader(text[i]) => text[i][2] # t

\* C11 - Well-formed bulk blocks: in the document _write_backup writes, every
\* bulk-import header line is followed by streamed rows and then a lone
\* backslash-dot line before any other text, also when the COPY of the table
\* failed; a table counted with zero rows has the no-rows comment and no
\* bulk-import header.
C11_WellFormedBulk ==
    /\ \A i \in 1..Len(Written) : IsBulkHeader(Written[i]) => BulkClosed(Written, i)
    /\ pc \in {"loop", "close"} =>
          \A t \in DOMAIN stats.tables :
              stats.tables[t].rows = 0 => NoRowsComment(Written, t)

\* C15 - Empty value set selects nothing: for a table whose filter is a
\* ForeignKeyFilter with an empty value list, whatever rows the table holds,
\* no COPY is sent and no bulk-import header is written, and once its section
\* is written the table is counted with 0 rows and has the no-rows comment.
C15_EmptyValueSet ==
    \A t \in Tables :
        filters[t] = "fk_empty" =>
            /\ <<"copy", t, "write">> \notin issued
            /\ \A i \in 1..Len(Written) : IsBulkHeader(Written[i]) => Written[i][2] # t
            /\ (pc \in {"loop", "close"} /\ t \in DOMAIN stats.tables) =>
                  /\ stats.tables[t].rows = 0
                  /\ NoRowsComment(Written, t)

\* The section of A, which holds rows, was written under such a filter.
C15_Witness ==
    /\ pc = "close"
    /\ filters["A"] = "fk_empty"
    /\ RowsOf(source_schema, "A") > 0
    /\ "A" \in DOMAIN stats.tables
    /\ NoRowsComment(Written, "A")

\* The bulk-export statements _backup_table has executed for table t.
ExportsOf(t) == {x \in sent : x[1] = "write" /\ x[2] = t /\ x[3][1] = "copy"}

\* The bulk-import headers written for table t.
HeadersOf(text, t) ==
    {text[i] : i \in {k \in 1..Len(text) : IsBulkHeader(text[k]) /\ text[k][2] = t}}

\* DELIMITER, NULL, QUOTE, ESCAPE and the column list of an import header.
ImportFormat(line) == <<line[11], line[13], line[15], line[17], line[4]>>

\* The same of an export statement; its columns are those of its query.
ExportFormat(copy) ==
    <<copy[3], copy[4], copy[5], copy[6], ColumnsStr(ColumnNames(copy[2]))>>

\* C16 - Matching import/export format: while _write_backup writes, every
\* bulk-export statement executed for a table has a bulk-import header in
\* the document, and every header of that table carries the DELIMITER, NULL,
\* QUOTE and ESCAPE values and the column list of the export statement,
\* whatever copy_delimiter and copy_null_string are configured.
C16_MatchingFormat ==
    pc \in {"write_preamble", "get_tables", "loop", "close"} =>
        \A t \in Tables :
            \A x \in ExportsOf(t) :
                /\ HeadersOf(Written, t) # {}
                /\ \A line \in HeadersOf(Written, t) :
                       ImportFormat(line) = ExportFormat(x[3])

\* A run configured with a comma and NA has exported a table with rows.
C16_Witness ==
    /\ pc = "close"
    /\ copy_delimiter = ","
    /\ copy_null_string = "NA"
    /\ \E t \in Tables :
          /\ ExportsOf(t) # {}
          /\ HeadersOf(Written, t) # {}
          /\ t \in DOMAIN stats.tables

\* The tables whose iteration of the write loop ended in its except clause.
FailedInLoop ==
    {t \in {tables[k] : k \in 1..Len(tables)} :
        t \notin excluded_tables /\ t \notin DOMAIN stats.tables}

\* The file has the line '-- ERROR backing up table: t'.
HasErrorComment(file, t) ==
    file # NoFile /\ \E i \in 1..Len(file) : file[i] = <<"--", "ERROR backing up table:", t>>

\* C18 - Failure is visible in the artifact: after a backup() that returned
\* success = true, the file at the destination has the error comment of every
\* table that failed in the write loop, with clean_output on and off.
C18_FailureVisible ==
    (pc = "returned" /\ result.success) =>
        \A t \in FailedInLoop : HasErrorComment(fs.dest, t)

\* Some token of the line is the qualifier of the schema.
HasQualifier(line, schema) == \E k \in 1..Len(line) : line[k] = Qualifier(schema)

\* C19 - Source-schema stripping for any source schema: after a backup() with
\* cleaning that returned success = true, no line outside a bulk block of the
\* file at the destination carries the qualifier of the source schema,
\* whichever schema that is.
C19_SourceSchemaStripped ==
    (pc = "returned" /\ result.success /\ clean_output) =>
        \A i \in 1..Len(fs.dest) :
            OutsideAt(fs.dest, i) => ~HasQualifier(fs.dest[i], source_schema)

\* The statement was built around the SELECT a predicate builder rendered.
FromBuilder(x) == x[3][2][1] \in {"where", "where_false"}

\* The schema that SELECT reads from.
SchemaRead(x) == x[3][2][2]

\* C20 - Filters follow the source schema: every statement sent for a table
\* with a predicate-builder filter (by filter validation, by the row count,
\* by the export, by estimate_size) reads the table from the source schema
\* of the run.
C20_FiltersFollowSchema ==
    \A x \in sent : FromBuilder(x) => SchemaRead(x) = source_schema

\* The text has the data section of t: its bulk block, closed, or its
\* no-rows comment.
HasDataSection(text, t) ==
    \/ NoRowsComment(text, t)
    \/ \E i \in 1..Len(text) :
          IsBulkHeader(text[i]) /\ text[i][2] = t /\ BulkClosed(text, i)

\* Structure dumps have failed in this run, and nothing else has.
OnlyDumpsFailed == faults # {} /\ \A x \in faults : x[1] = "pg_dump"

\* C22 - Schema-dump failure is non-fatal: in a run in which only structure
\* dumps have failed, every table whose dump failed is in the statistics
\* under the rows its query selects, tables_count and total_rows count it,
\* its data section is in the document, and when no other step of backup()
\* failed the result is success = true with the table in its statistics.
C22_DumpFailureNonFatal ==
    OnlyDumpsFailed =>
        /\ \A t \in Tables :
              <<"pg_dump", t>> \in faults =>
                  /\ t \in DOMAIN stats.tables
                  /\ stats.tables[t].rows = RowsRead(t)
                  /\ pc \in {"loop", "close"} => HasDataSection(Written, t)
                  /\ (pc = "returned" /\ ~Escaped) =>
                        /\ result.success
                        /\ t \in DOMAIN result.stats.tables
        /\ stats.tables_count = Cardinality(DOMAIN stats.tables)
        /\ stats.total_rows =
              SumOver([t \in DOMAIN stats.tables |-> stats.tables[t].rows],
                      DOMAIN stats.tables)

\* A run has returned in which the structure dump of A failed and that of B
\* did not.
C22_Witness ==
    /\ pc = "returned"
    /\ ~Escaped
    /\ faults = {<<"pg_dump", "A">>}
    /\ "B" \in DOMAIN stats.tables
    /\ RowsRead("A") > 0

\* The failures after which the cleaning pass has opened the destination.
AfterDestinationOpened ==
    {<<"clean", "write">>, <<"remove", "backup">>, <<"getsize", "backup">>}

\* C30 - Destination untouched on write-phase failure: with clean_output
\* enabled the destination is as it was when backup() was called up to the
\* cleaning pass, and when the run failed at a step before the cleaning pass
\* opens the destination (validation, connection, directory, temp file,
\* catalog query, document write, connection close, reading the temp file)
\* it is still so when backup() has returned.
C30_DestinationUntouched ==
    clean_output =>
        /\ pc \notin {"remove_temp", "finalize", "except", "returned"} =>
              fs.dest = fs0.dest
        /\ (pc \in {"except", "returned"} /\ Escaped
               /\ faults \cap AfterDestinationOpened = {}) =>
              fs.dest = fs0.dest

\* A run over an earlier backup has returned after the document was written
\* to the temp file and could not be read back.
C30_Witness ==
    /\ clean_output
    /\ pc = "returned"
    /\ <<"clean", "read">> \in faults
    /\ tpos > Len(tables)
    /\ fs0.dir
    /\ fs.dest = OldFile

\* No call is in progress: backup() has returned and estimate_size() is not
\* between its first and its last statement.
NoCallInProgress == pc = "returned" /\ epc \in {"idle", "returned", "raised"}

\* C27 - No connection leak: when backup() (with the validation it runs) and
\* estimate_size() have returned or raised, every connection they opened has
\* been closed, and at no point of a backup run (before estimate_size() is
\* called) are two connections open at the same time.
C27_NoConnectionLeak ==
    /\ epc = "idle" => conns <= 1
    /\ NoCallInProgress => conns = 0

(***************************************************************************)
(* Properties of backup() over its arguments (under SpecArguments).        *)
(***************************************************************************)
IsLetterOrUnderscore(ch) ==
    ch \in {"a", "c", "e", "g", "h", "m", "s", "t", "y", "_"}

IsDigit(ch) == ch \in {"0", "1", "2", "3", "4", "5", "6", "7", "8", "9"}

\* A letter or an underscore followed by letters, digits or underscores.
IsStrictIdentifier(chars) ==
    /\ Len(chars) > 0
    /\ IsLetterOrUnderscore(chars[1])
    /\ \A k \in 2..Len(chars) : IsLetterOrUnderscore(chars[k]) \/ IsDigit(chars[k])

\* The file has a statement (a line that is no comment) with the name in it.
HasStatementWith(file, name) ==
    /\ file # NoFile
    /\ \E i \in 1..Len(file) :
          /\ Len(file[i]) > 0
          /\ file[i][1] # "--"
          /\ \E k \in 1..Len(file[i]) : file[i][k] = name

\* C21 - Target-schema grammar: when backup() is called with a target schema
\* name that is no strict identifier, no file ever holds a statement with
\* that name, and the call returns success = false.
C21_TargetSchemaGrammar ==
    (schema_name # NoSchema /\ ~IsStrictIdentifier(Spelling(schema_name))) =>
        /\ ~HasStatementWith(fs.temp, schema_name)
        /\ ~HasStatementWith(fs.dest, schema_name)
        /\ pc = "returned" => ~result.success

\* The lines of the text that are the bulk-import header of t.
BulkHeadersOf(text, t) ==
    {i \in 1..Len(text) : IsBulkHeader(text[i]) /\ text[i][2] = t}

\* The number of rows between the bulk-import header of t and the line that
\* ends its rows; 0 when the text has no bulk block for t.
RowsStreamed(text, t) ==
    IF BulkHeadersOf(text, t) = {} THEN 0
    ELSE LET i == CHOOSE h \in BulkHeadersOf(text, t) : TRUE IN
         Cardinality({k \in (i + 1)..Len(text) :
                         \A j \in (i + 1)..k : IsStreamedRow(text[j])})

\* The text has the comment '-- Rows: n' under the data header of t.
HasRowsComment(text, t, n) ==
    \E i \in 1..(Len(text) - 1) :
        /\ text[i] = <<"--", "Data for table:", t>>
        /\ text[i + 1] = <<"--", "Rows:", ToString(n)>>

\* C28 - Reported rows equal exported rows under concurrency: while
\* _write_backup writes, for every table in the statistics the rows recorded
\* are the rows streamed into its bulk block, the '-- Rows: N' comment of a
\* bulk block names that number, and the document has a bulk block for the
\* table exactly when rows were there to stream, also when other sessions
\* write between the count and the COPY.
C28_ReportedRowsExported ==
    pc \in {"loop", "close"} =>
        \A t \in DOMAIN stats.tables :
            LET exported == RowsStreamed(Written, t) IN
            /\ stats.tables[t].rows = exported
            /\ BulkHeadersOf(Written, t) # {} <=> exported > 0
            /\ BulkHeadersOf(Written, t) # {} => HasRowsComment(Written, t, exported)

\* C29 - Caller's arguments are left unchanged: no step of backup() changes
\* the metadata mapping, the filters mapping or the backup configuration the
\* caller passed, and the metadata of the result is never the caller's
\* mapping itself.
C29_ArgumentsUnchanged ==
    /\ [][/\ metadata' = metadata
          /\ filters' = filters
          /\ <<excluded_tables, clean_output, config>>' =
                 <<excluded_tables, clean_output, config>>]_vars
    /\ [](result.metadata.object # "argument")

(***************************************************************************)
(* Properties of the predicate builders (under SpecFilter).                *)
(***************************************************************************)
\* (c_1) OP ... OP (c_n) for the conditions of the sub-filters.
Parenthesized(subs, op) ==
    JoinWith(<<" ", op, " ">>,
             [i \in 1..Len(subs) |-> <<"(">> \o ConditionOf(subs[i]) \o <<")">>])

\* C14 - Composite rendering: a CompositeFilter over n >= 1 predicate
\* builders, each rendering SELECT * FROM s.t WHERE c_i, renders
\* SELECT * FROM s.t WHERE (c_1) OP ... OP (c_n) for every table name,
\* schema and operator.
C14_CompositeRendering ==
    (/\ fpc = "returned"
     /\ Len(sub_filters) >= 1
     /\ \A i \in 1..Len(sub_filters) : sub_filters[i] \in PredicateBuilders) =>
        statement = WithWhere(SelectFrom(ParamsGet(params, <<"public">>), table_name),
                              Parenthesized(sub_filters, operator))

\* The rows a table can hold, told apart by what the conditions of the
\* builders say of them: created_at within the closed range, created_at
\* within the half-open range, customer_id among the values, status active,
\* status deleted.
RowKinds ==
    [closed : BOOLEAN, halfopen : BOOLEAN, customer : BOOLEAN,
     active : BOOLEAN, deleted : BOOLEAN]

\* Whether the row satisfies a condition as a builder writes it.
Satisfies(row, condition) ==
    CASE condition = DateRangeCondition(TRUE) -> row.closed
      [] condition = DateRangeCondition(FALSE) -> row.halfopen
      [] condition = <<"customer_id", " IN (", "123, 456", ")">> -> row.customer
      [] condition = <<"status", " IN (", "'active'", ")">> -> row.active
      [] condition = <<"status", " NOT IN (", "'deleted'", ")">> -> ~row.deleted
      [] condition = <<"1=1">> -> TRUE
      [] OTHER -> FALSE

\* The text has, at position i, the closing parenthesis of an operand: the
\* one at the end of the text or in front of an operator.
ClosesOperand(text, i) ==
    /\ text[i] = ")"
    /\ \/ i = Len(text)
       \/ i + 2 <= Len(text) /\ text[i + 1] = " " /\ text[i + 2] \in {"AND", "OR"}

\* The position at which the first operand of the text is closed.
FirstClose(text) ==
    CHOOSE i \in 1..Len(text) :
        ClosesOperand(text, i) /\ \A j \in 1..(i - 1) : ~ClosesOperand(text, j)

RECURSIVE Operands(_)
\* The conditions in parentheses of the text (c_1) OP (c_2) ..., in order.
Operands(text) ==
    IF text = <<>> \/ text[1] # "(" THEN <<>>
    ELSE LET e == FirstClose(text) IN
         <<SubSeq(text, 2, e - 1)>>
            \o (IF e + 3 < Len(text) THEN Operands(SubSeq(text, e + 4, Len(text)))
                ELSE <<>>)

\* Whether the row is selected by the text after WHERE: one condition, or
\* conditions in parentheses joined by one operator.
Holds(row, text) ==
    IF text[1] # "(" THEN Satisfies(row, text)
    ELSE LET ops == Operands(text)
             e == FirstClose(text)
         IN  IF e + 3 < Len(text) /\ text[e + 2] = "OR"
             THEN \E k \in 1..Len(ops) : Satisfies(row, ops[k])
             ELSE \A k \in 1..Len(ops) : Satisfies(row, ops[k])

\* The rows the statement selects from a table that holds the given rows:
\* all of them when it has no WHERE clause.
RowsSelected(query, rows) ==
    IF Find(query) = 0 THEN rows
    ELSE {row \in rows : Holds(row, SubSeq(query, Find(query) + 2, Len(query)))}

\* The rows sub-filter k of the CompositeFilter selects by itself.
SubSelected(k, rows) == RowsSelected(Build(sub_filters[k], table_name, params), rows)

\* C26 - OR-composition selects the union: for a CompositeFilter over one
\* sub-filter or more and a table whose name does not read WHERE, the rows
\* the rendered statement selects are, for OR, the rows some sub-filter
\* selects and, for AND, the rows every sub-filter selects, sub-filters
\* without a WHERE clause included.
C26_UnionAndIntersection ==
    (fpc = "returned" /\ Len(sub_filters) >= 1 /\ Find(table_name) = 0) =>
        RowsSelected(statement, RowKinds) =
            IF operator = "OR"
            THEN {row \in RowKinds :
                     \E k \in 1..Len(sub_filters) : row \in SubSelected(k, RowKinds)}
            ELSE {row \in RowKinds :
                     \A k \in 1..Len(sub_filters) : row \in SubSelected(k, RowKinds)}

(***************************************************************************)
(* Properties of CopyToStreamWrapper (under SpecStream).                   *)
(***************************************************************************)
\* The number of bytes a character takes in UTF-8.
CharBytes(cp) == IF cp < 128 THEN 1 ELSE IF cp < 2048 THEN 2 ELSE 3

RECURSIVE TextBytes(_)
TextBytes(text) ==
    IF text = <<>> THEN 0 ELSE CharBytes(Head(text)) + TextBytes(Tail(text))

\* The byte length of a chunk: of the bytes as given, of a str in UTF-8.
ChunkBytes(chunk) ==
    IF chunk.type = "bytes" THEN Len(chunk.data) ELSE TextBytes(chunk.data)

\* The text a chunk stands for: the characters of a str, and for the bytes
\* of the model the text they were encoded from.
ChunkText(chunk) ==
    IF chunk.type = "str" THEN chunk.data
    ELSE CHOOSE text \in Texts : Encode(text) = chunk.data

Succeeded(n) == {k \in 1..n : calls[k].outcome = "returned"}

RECURSIVE ReturnedSum(_)
\* The sum of the values the first n calls returned.
ReturnedSum(n) ==
    IF n = 0 THEN 0
    ELSE ReturnedSum(n - 1)
           + (IF calls[n].outcome = "returned" THEN calls[n].returned ELSE 0)

\* The calls that reached self.outfile.write, in order.
Forwarded == SelectSeq(calls, LAMBDA c : c.outcome # "UnicodeDecodeError")

\* C17 - Encoder counters: after any sequence of write() calls the sink has
\* received the chunk of every call that reached it once and in order, every
\* call that returned has returned the byte length of its chunk,
\* chunks_written is the number of calls that returned and bytes_written the
\* sum of their return values; a call whose sink write failed has left both
\* counters as they were; and a read of stats gave bytes_written divided by
\* max(chunks_written, 1), which before the first write is 0 over 1.
C17_EncoderCounters ==
    /\ Len(sink) = Len(Forwarded)
    /\ \A k \in 1..Len(sink) :
          /\ sink[k].data = ChunkText(Forwarded[k].chunk)
          /\ sink[k].raised = (Forwarded[k].outcome = "OSError")
    /\ \A k \in Succeeded(Len(calls)) : calls[k].returned = ChunkBytes(calls[k].chunk)
    /\ chunks_written = Cardinality(Succeeded(Len(calls)))
    /\ bytes_written = ReturnedSum(Len(calls))
    /\ \A k \in 1..Len(calls) :
          calls[k].outcome # "returned" => calls[k].after = calls[k].before
    /\ stats_read.read =>
          LET n == Cardinality(Succeeded(stats_read.at)) IN
          /\ stats_read.bytes_written = ReturnedSum(stats_read.at)
          /\ stats_read.chunks_written = n
          /\ stats_read.avg_chunk_size[1] = ReturnedSum(stats_read.at)
          /\ stats_read.avg_chunk_size[2] = (IF n = 0 THEN 1 ELSE n)
          /\ (stats_read.at = 0 => stats_read.avg_chunk_size = <<0, 1>>)

\* stats was read before the first write; then a write of bytes that hold a
\* character of several bytes returned and a write failed at the sink.
C17_Witness ==
    /\ stats_read.read
    /\ stats_read.at = 0
    /\ Len(calls) = MaxWrites
    /\ \E k \in Succeeded(Len(calls)) :
          /\ calls[k].chunk.type = "bytes"
          /\ Len(AsStr(calls[k].chunk)) < calls[k].returned
    /\ \E k \in 1..Len(calls) : calls[k].outcome = "OSError"

====
